---- MODULE Spec2Model ----
(***************************************************************************)
(* Model of the runtime-settings resolution engine                         *)
(* (lib/runtime-settings): the store and its merge, the read path, the     *)
(* secret broker with its version counter, the watcher service and the     *)
(* custom-context stack.                                                   *)
(***************************************************************************)
EXTENDS Integers, Sequences, FiniteSets, TLC

(***************************************************************************)
(* Bounds of the model.                                                    *)
(***************************************************************************)
\* longest `settings` list of one provider response
MaxSettings == 2
\* longest `deleted` list of one provider response
MaxDeleted == 1
\* priorities are 1..MaxPriority
MaxPriority == 2
\* deepest custom-context stack
MaxDepth == 3
\* the secrets version counter is explored up to this value
MaxEpoch == 2
\* watchers registered over a run
MaxWatchers == 2
\* the most tasks there are
MaxTasks == 2
\* the most guards a thread holds, and the most scopes a task is in, those
\* it was spawned in included
MaxScopes == 2
\* configurations the remote publishes
MaxPublished == 2

(***************************************************************************)
(* Option values: None is the empty sequence, Some(x) the one-element one. *)
(***************************************************************************)
None == <<>>
Some(x) == <<x>>
IsSome(o) == Len(o) = 1
Unwrap(o) == o[1]

(***************************************************************************)
(* Small input domains.                                                    *)
(***************************************************************************)
Keys == {"K1", "K2"}
Priorities == 1..MaxPriority
Bodies == {"a", "b"}
\* Vault paths a value may reference through {"$secret": "<path>:password"}
Paths == {"db/creds", "interservice-auth/x"}
NoRef == "-"
\* a {"$secret": ...} reference without a colon
BadRef == "invalid-no-colon"
\* secret data stored by the backend under the key "password"
SecretData == {"hunter2", "s3cret"}
\* the secret exists at the path but has no key "password"
NoPassword == "<no password>"
\* kv_read_raw of the path fails
Unavailable == "<unavailable>"
\* what the backend may hold for a path
VaultData == SecretData \cup {NoPassword, Unavailable}
\* a call of get::<T>: the tokio runtime flavor of the calling thread and T
\* ("Doc" = the type the values deserialize to, "U64" = one they do not)
Calls == [runtime : {"multi_thread", "current_thread"}, ty : {"Doc", "U64"}]
DefaultCall == [runtime |-> "multi_thread", ty |-> "Doc"]
\* versions a provider response may carry ("" = empty, as env and file send)
ResponseVersions == {"", "1"}

\* The regex patterns of the model and the strings each one matches when
\* compiled anchored (^(?:P)$) and case-insensitive.
Lang(pattern) ==
    CASE pattern = "svc" -> {"svc"}
      [] pattern = "other" -> {"other"}
      [] pattern = "PROD" -> {"PROD"}
      [] pattern = "/api/.*" -> {"/api/u"}
      [] pattern = "example\\.com" -> {"example.com"}
      [] pattern = ".*@corp" -> {"ann@corp"}
      [] pattern = "10\\..*" -> {"10.0.0.1"}
      [] pattern = "on" -> {"on"}
      [] OTHER -> {}

\* patterns the regex crate accepts (every pattern of the model but "(")
RegexValid(pattern) == pattern # "("

\* Regex::is_match of the anchored, case-insensitive pattern
RegexMatch(pattern, value) == value \in Lang(pattern)

\* filter maps of the model (HashMap<String, String>)
NoFilter == [n \in {} |-> ""]
UrlApi == [n \in {"url-path"} |-> "/api/.*"]
AppOther == [n \in {"application"} |-> "other"]
McsProd == [n \in {"mcs_run_env"} |-> "PROD"]
FilterMaps == {NoFilter, UrlApi, AppOther, McsProd}

\* entities.rs RawSetting; value = a JSON object whose `ref` is NoRef (no
\* secret node) or the path of a {"$secret": "<path>:password"} node
RawValues == {[body |-> b, ref |-> NoRef] : b \in Bodies}
\* K1 takes every filter map (the filtered ones with body "a"); K2 is the
\* key the frame conditions look at
RawSettings ==
    {r \in [key : {"K1"}, priority : Priorities, filter : FilterMaps,
            value : RawValues] : r.filter = NoFilter \/ r.value.body = "a"}
    \cup [key : {"K2"}, priority : Priorities, filter : {NoFilter},
          value : {[body |-> "a", ref |-> NoRef]}]

\* entities.rs SettingKey
SettingKeys == [key : Keys, priority : Priorities]

\* context.rs Request: its path and its headers
NoHeaders == [n \in {} |-> ""]
Requests == {[path |-> "/api/u", headers |-> NoHeaders],
             [path |-> "/web", headers |-> NoHeaders]}

\* who calls RuntimeSettings::refresh: the background loop of setup and the
\* application
Callers == {"loop", "explicit"}

\* reader threads of the lock-level specification
Readers == {"r1", "r2"}

\* the process identity chosen by the builder: MCS_RUN_ENV unset or "PROD"
StaticContexts ==
    {[application |-> "svc", mcs_run_env |-> e] : e \in {None, Some("PROD")}}

\* context.rs DynamicContext: the request in scope, if any
DynamicContexts == {[request |-> r] : r \in {None} \cup {Some(q) : q \in Requests}}

(***************************************************************************)
(* State.                                                                  *)
(***************************************************************************)
VARIABLES
    static_context,  \* RuntimeSettings.static_context
    version,         \* SettingsState.version
    settings,        \* SettingsState.settings: key -> list of Setting
    secrets_version, \* SecretsService.version
    secrets_cache,   \* SecretsService.cache: path -> CachedSecret, if cached
    vault,           \* the secret backend: path -> data["password"]
    refreshed,       \* paths whose cached secret went through a completed
                     \* refresh() since the backend value last changed
    lastGet,         \* the value a get has computed and not yet returned
    merging,         \* the merge_settings call that holds the write lock of
                     \* RuntimeSettings.state, with what it has left to do
    readers,         \* per reader thread: its get_internal call, if it holds
                     \* the read lock of RuntimeSettings.state
    committed,       \* the store as the last completed merge left it
    watchers,        \* WatchersService.watchers: key -> list of WatcherId, if
                     \* the map has the key
    snapshot,        \* WatchersService.snapshot: key -> value, if present
    calls,           \* the callbacks the last check invoked, each with the
                     \* number of times it was invoked
    next_watcher_id, \* NEXT_WATCHER_ID
    armed,           \* the watchers added while their key had no value
    snapshots,       \* CustomContext.snapshots
    layers,          \* the layers pushed and not yet popped, as pushed
    behaviour,       \* per WatcherId: what its callback does
    checking,        \* the WatchersService::check call in progress
    poisoned,        \* the snapshot RwLock is poisoned
    refreshing,      \* the RuntimeSettings::refresh call in progress or last
                     \* ended, and whether the background loop of setup lives
    thread_request,  \* THREAD_REQUEST
    guards,          \* the guards of set_request and set_custom not yet dropped
    tasks,           \* per task: its TASK_REQUEST and TASK_CUSTOM, if set, and
                     \* the scopes that set them, innermost last
    server,          \* the number of configurations the remote has published
    inflight         \* per caller of refresh: the cursor it sent and the
                     \* response it has loaded and not yet merged

storeVars == <<static_context, version, settings>>
secretVars == <<secrets_version, secrets_cache, vault, refreshed>>
lockVars == <<merging, readers, committed>>
watchVars == <<watchers, snapshot, calls, next_watcher_id, armed>>
ctxVars == <<snapshots, layers>>
checkVars == <<behaviour, checking, poisoned>>
scopeVars == <<thread_request, guards, tasks>>
overlapVars == <<server, inflight>>
vars == <<static_context, version, settings, secrets_version, secrets_cache,
          vault, refreshed, lastGet, merging, readers, committed,
          watchers, snapshot, calls, next_watcher_id, armed, snapshots, layers,
          behaviour, checking, poisoned, refreshing, thread_request, guards, tasks, server, inflight>>

\* no check is running
Idle == [pc |-> "idle", cur |-> [k \in {"K1", "K2"} |-> <<>>], visited |-> {},
         todo |-> <<>>, futures |-> <<>>, ran |-> {}]

\* no get is returning
NoGet == [key |-> "", ctx |-> [request |-> None], result |-> None, hit |-> FALSE,
          panic |-> FALSE]

(***************************************************************************)
(* Filters.                                                                *)
(***************************************************************************)
KNOWN_STATIC_FILTER_NAMES == {"application", "server", "mcs_run_env",
                              "environment", "library_version"}
DYNAMIC_FILTER_NAMES == {"url-path", "host", "email", "ip", "header",
                         "context", "probability"}

is_static_filter(name) == name \in KNOWN_STATIC_FILTER_NAMES

\* static_filters.rs check_regex: an invalid pattern is NoMatch
check_regex(pattern, value) ==
    IF RegexValid(pattern) /\ RegexMatch(pattern, value) THEN "Match" ELSE "NoMatch"

\* StaticFilter::check of ApplicationFilter and McsRunEnvFilter
StaticFilterCheck(name, pattern, ctx) ==
    CASE name = "application" -> check_regex(pattern, ctx.application)
      [] name = "mcs_run_env" ->
            IF IsSome(ctx.mcs_run_env)
            THEN check_regex(pattern, Unwrap(ctx.mcs_run_env))
            ELSE "NotApplicable"
      [] OTHER -> "NotApplicable"

\* filters/mod.rs check_static_filters: the check merge_settings performs
check_static_filters(filter, ctx) ==
    \A name \in DOMAIN filter :
        \/ name \in DYNAMIC_FILTER_NAMES
        \/ ~is_static_filter(name)
        \/ StaticFilterCheck(name, filter[name], ctx) # "NoMatch"

\* CompiledStaticFilter::check of the compiled application and mcs_run_env
\* filters
CompiledStaticCheck(name, pattern, ctx) ==
    CASE name = "application" -> RegexMatch(pattern, ctx.application)
      [] name = "mcs_run_env" ->
            IF IsSome(ctx.mcs_run_env)
            THEN RegexMatch(pattern, Unwrap(ctx.mcs_run_env))
            ELSE FALSE
      [] OTHER -> TRUE

\* str::to_lowercase on the header names of the model
Lower(name) ==
    CASE name = "Host" -> "host"
      [] name = "X-Real-Ip" -> "x-real-ip"
      [] name = "X-Real-Email" -> "x-real-email"
      [] name = "X-Flag" -> "x-flag"
      [] OTHER -> name

\* Request::get_header: case-insensitive lookup
get_header(req, key) ==
    LET found == {k \in DOMAIN req.headers : Lower(k) = Lower(key)}
    IN  IF found = {} THEN None ELSE Some(req.headers[CHOOSE k \in found : TRUE])

\* the header Request::host, ::email and ::ip read
AccessorHeader(name) ==
    CASE name = "host" -> "host"
      [] name = "email" -> "x-real-email"
      [] name = "ip" -> "x-real-ip"

\* CompiledHeaderFilter::compile on the header patterns of the model: the
\* (lowercase key, value pattern) pairs of "KEY=value,..."
HeaderConditions(pattern) ==
    CASE pattern = "X-Flag=on" -> {[key |-> "x-flag", regex |-> "on"]}
      [] OTHER -> {}

\* request-derived filters that fail when no request is in scope
CompiledDynamicCheckStrict(name, pattern, ctx) ==
    IsSome(ctx.request) /\ RegexMatch(pattern, Unwrap(ctx.request).path)

\* CompiledDynamicFilter::check of the compiled url-path, host, email, ip and
\* header filters
CompiledDynamicCheck(name, pattern, ctx) ==
    CASE name = "url-path" ->
            IF IsSome(ctx.request)
            THEN RegexMatch(pattern, Unwrap(ctx.request).path)
            ELSE TRUE
      [] name \in {"host", "email", "ip"} ->
            IF IsSome(ctx.request)
            THEN LET h == get_header(Unwrap(ctx.request), AccessorHeader(name))
                 IN  IF IsSome(h) THEN RegexMatch(pattern, Unwrap(h)) ELSE TRUE
            ELSE TRUE
      [] name = "header" ->
            IF IsSome(ctx.request)
            THEN \A c \in HeaderConditions(pattern) :
                    LET h == get_header(Unwrap(ctx.request), c.key)
                    IN  IsSome(h) /\ RegexMatch(c.regex, Unwrap(h))
            ELSE TRUE
      [] OTHER -> TRUE

(***************************************************************************)
(* Setting (entities.rs).                                                  *)
(***************************************************************************)
Restrict(f, S) == [n \in S |-> f[n]]

\* secrets/mod.rs find_secret_usages: the secret nodes of a value
find_secret_usages(value) ==
    IF value.ref = NoRef THEN <<>> ELSE <<[path |-> value.ref, key |-> "password"]>>

\* Setting::compile: None on a compile error
SettingCompile(raw) ==
    LET statics == {n \in DOMAIN raw.filter : is_static_filter(n)}
        dynamics == {n \in DOMAIN raw.filter :
                        /\ ~is_static_filter(n)
                        /\ n \in DYNAMIC_FILTER_NAMES
                        /\ RegexValid(raw.filter[n])}
    IN  IF \/ \E n \in statics : ~RegexValid(raw.filter[n])
           \/ raw.value.ref = BadRef
        THEN None
        ELSE Some([key |-> raw.key,
                   priority |-> raw.priority,
                   value |-> raw.value,
                   static_filters |-> Restrict(raw.filter, statics),
                   dynamic_filters |-> Restrict(raw.filter, dynamics),
                   value_cache |-> None,
                   secrets_usages |-> find_secret_usages(raw.value),
                   cached_at_version |-> 0])

\* Setting::check_static_filters
SettingCheckStatic(s, ctx) ==
    \A n \in DOMAIN s.static_filters :
        CompiledStaticCheck(n, s.static_filters[n], ctx)

\* Setting::check_dynamic_filters
SettingCheckDynamic(s, ctx) ==
    \A n \in DOMAIN s.dynamic_filters :
        CompiledDynamicCheck(n, s.dynamic_filters[n], ctx)

\* Setting::has_secrets
has_secrets(s) == s.secrets_usages # <<>>

(***************************************************************************)
(* merge_settings (settings.rs).                                           *)
(***************************************************************************)
\* a retain that removes nothing
RetainNothing(list, priority) == list

\* Vec::retain(|s| s.priority != priority)
Retain(list, priority) == SelectSeq(list, LAMBDA s : s.priority # priority)

\* an insert position that ignores the priorities: always the end
InsertPosAppend(list, p, i) == Len(list) + 1

\* iter().position(|s| s.priority < p).unwrap_or(len), 1-based
RECURSIVE InsertPos(_, _, _)
InsertPos(list, p, i) ==
    IF i > Len(list) THEN i
    ELSE IF list[i].priority < p THEN i
    ELSE InsertPos(list, p, i + 1)

\* Vec::insert(pos, setting)
InsertAt(list, pos, s) ==
    SubSeq(list, 1, pos - 1) \o <<s>> \o SubSeq(list, pos, Len(list))

\* a deletion that drops every entry of the deleted key
ProcessDeletedWholeKey(map, deleted) ==
    [k \in DOMAIN map |->
        IF \E i \in 1..Len(deleted) : deleted[i].key = k THEN <<>> ELSE map[k]]

\* the loop over response.deleted
RECURSIVE ProcessDeleted(_, _)
ProcessDeleted(map, deleted) ==
    IF deleted = <<>> THEN map
    ELSE LET d == Head(deleted)
         IN  ProcessDeleted([map EXCEPT ![d.key] = Retain(@, d.priority)],
                            Tail(deleted))

\* an iteration that puts every entry at the head of its key's list and
\* removes nothing
ProcessSettingPrepend(map, raw, ctx) ==
    LET c == SettingCompile(raw)
    IN  IF ~check_static_filters(raw.filter, ctx) \/ ~IsSome(c) THEN map
        ELSE [map EXCEPT ![raw.key] = <<Unwrap(c)>> \o @]

\* one iteration of the loop over response.settings
ProcessSetting(map, raw, ctx) ==
    IF ~check_static_filters(raw.filter, ctx)
    THEN [map EXCEPT ![raw.key] = Retain(@, raw.priority)]
    ELSE LET c == SettingCompile(raw)
         IN  IF ~IsSome(c) THEN map
             ELSE LET s == Unwrap(c)
                      kept == Retain(map[s.key], s.priority)
                  IN  [map EXCEPT ![s.key] =
                          InsertAt(kept, InsertPos(kept, s.priority, 1), s)]

\* the loop over response.settings
RECURSIVE ProcessSettings(_, _, _)
ProcessSettings(map, raws, ctx) ==
    IF raws = <<>> THEN map
    ELSE ProcessSettings(ProcessSetting(map, Head(raws), ctx), Tail(raws), ctx)

\* a merge that takes the version of every response
MergeResultAnyVersion(st, response, ctx) ==
    [settings |-> ProcessSettings(ProcessDeleted(st.settings, response.deleted),
                                  response.settings, ctx),
     version |-> response.version]

\* RuntimeSettings::merge_settings on the state [version, settings]
MergeResult(st, response, ctx) ==
    [settings |-> ProcessSettings(ProcessDeleted(st.settings, response.deleted),
                                  response.settings, ctx),
     version |-> IF response.version # "" THEN response.version ELSE st.version]

\* sequences over S of length at most n
SeqsUpTo(S, n) == UNION {[1..k -> S] : k \in 0..n}

\* providers/mod.rs ProviderResponse
Responses ==
    [settings : SeqsUpTo(RawSettings, MaxSettings),
     deleted : SeqsUpTo(SettingKeys, MaxDeleted),
     version : ResponseVersions]

(***************************************************************************)
(* SecretsService (secrets/mod.rs).                                        *)
(***************************************************************************)
\* SecretsService::default_refresh_intervals: the substrings with an interval
RefreshPatterns == {"kafka-certificates", "interservice-auth"}

\* str::contains on the paths of the model
Contains(path, pattern) ==
    path = "interservice-auth/x" /\ pattern = "interservice-auth"

\* CachedSecret as get and update_cached_secret build it: lease_duration None,
\* renewable false; `aged` stands for fetched_at.elapsed() >= the interval
CachedSecret(value) ==
    [value |-> value, lease_duration |-> None, renewable |-> FALSE, aged |-> FALSE]

\* CachedSecret::needs_refresh(0.75)
needs_refresh(cached) ==
    IsSome(cached.lease_duration) /\ cached.renewable /\ cached.aged

\* SecretsService::needs_static_refresh
needs_static_refresh(path, cached) ==
    /\ ~cached.renewable
    /\ \E pattern \in RefreshPatterns : Contains(path, pattern)
    /\ cached.aged

\* SecretsService::get_sync with the get it falls back to:
\* [result, panic, cache] for the key "password" of the secret at path.
\* Fast path: a cached path answers, with an error if the key is missing.
\* Slow path: block_in_place, which works only on a multi-threaded runtime;
\* get caches what kv_read_raw returns before it looks for the key.
get_sync(cache, backend, path, call) ==
    IF IsSome(cache[path])
    THEN [result |-> IF Unwrap(cache[path]).value = NoPassword THEN None
                     ELSE Some(Unwrap(cache[path]).value),
          panic |-> FALSE, cache |-> cache]
    ELSE IF call.runtime # "multi_thread"
    THEN [result |-> None, panic |-> TRUE, cache |-> cache]
    ELSE IF backend[path] = Unavailable
    THEN [result |-> None, panic |-> FALSE, cache |-> cache]
    ELSE [result |-> IF backend[path] = NoPassword THEN None
                     ELSE Some(backend[path]),
          panic |-> FALSE,
          cache |-> [cache EXCEPT ![path] = Some(CachedSecret(backend[path]))]]

\* SecretsService::update_cached_secret: [changed, cache]
update_cached_secret(cache, path, new_value) ==
    [changed |-> IF IsSome(cache[path])
                 THEN Unwrap(cache[path]).value # new_value
                 ELSE TRUE,
     cache |-> [cache EXCEPT ![path] = Some(CachedSecret(new_value))]]

\* a refresh that never advertises a change
BumpNever(ver, any_changed) == ver

\* SecretsService::refresh: version.fetch_add(1) if any secret changed
BumpVersion(ver, any_changed) == IF any_changed THEN ver + 1 ELSE ver

\* the paths SecretsService::refresh re-reads
paths_to_refresh(cache) ==
    {p \in Paths : /\ IsSome(cache[p])
                   /\ \/ needs_refresh(Unwrap(cache[p]))
                      \/ needs_static_refresh(p, Unwrap(cache[p]))}

\* the loop of SecretsService::refresh over a set of paths:
\* [any_changed, cache]
RECURSIVE RefreshPaths(_, _, _, _)
RefreshPaths(cache, backend, todo, any_changed) ==
    IF todo = {} THEN [any_changed |-> any_changed, cache |-> cache]
    ELSE LET p == CHOOSE q \in todo : TRUE
             u == update_cached_secret(cache, p, backend[p])
         IN  IF backend[p] = Unavailable
             THEN RefreshPaths(cache, backend, todo \ {p}, any_changed)
             ELSE RefreshPaths(u.cache, backend, todo \ {p}, any_changed \/ u.changed)

(***************************************************************************)
(* The read path (entities.rs get_value, settings.rs get_internal).        *)
(***************************************************************************)
\* an invalidation that never clears
InvalidateNever(s, secrets_ver) == s

\* Setting::invalidate_if_stale
invalidate_if_stale(s, secrets_ver) ==
    IF s.cached_at_version # secrets_ver
    THEN [s EXCEPT !.value_cache = None, !.cached_at_version = secrets_ver]
    ELSE s

\* secrets/resolver.rs resolve_secrets_sync: [result, panic, cache]; the
\* result is the value with each secret node replaced by the secret
RECURSIVE resolve_secrets_sync(_, _, _, _, _)
resolve_secrets_sync(resolved, usages, cache, backend, call) ==
    IF usages = <<>>
    THEN [result |-> Some(resolved), panic |-> FALSE, cache |-> cache]
    ELSE LET g == get_sync(cache, backend, Head(usages).path, call)
         IN  IF ~IsSome(g.result)
             THEN [result |-> None, panic |-> g.panic, cache |-> g.cache]
             ELSE resolve_secrets_sync([resolved EXCEPT !.pass = Unwrap(g.result)],
                                       Tail(usages), g.cache, backend, call)

\* serde_json::from_value::<T>: the values of the model deserialize to Doc only
Deserializes(ty) == ty = "Doc"

\* a get_value that fills value_cache and never looks into it
GetValueRecompute(s, cache, backend, call) ==
    LET r == resolve_secrets_sync([body |-> s.value.body, pass |-> NoRef],
                                  s.secrets_usages, cache, backend, call)
    IN  IF ~IsSome(r.result) \/ ~Deserializes(call.ty)
        THEN [result |-> None, hit |-> FALSE, panic |-> r.panic,
              setting |-> s, cache |-> r.cache]
        ELSE [result |-> r.result, hit |-> FALSE, panic |-> FALSE,
              setting |-> [s EXCEPT !.value_cache = r.result],
              cache |-> r.cache]

\* Setting::get_value::<T>: [result, hit, panic, setting, cache]; value_cache
\* stands for the entry of the typed cache under TypeId::of::<Doc>()
get_value(s, cache, backend, call) ==
    IF call.ty = "Doc" /\ IsSome(s.value_cache)
    THEN [result |-> s.value_cache, hit |-> TRUE, panic |-> FALSE,
          setting |-> s, cache |-> cache]
    ELSE LET r == resolve_secrets_sync([body |-> s.value.body, pass |-> NoRef],
                                       s.secrets_usages, cache, backend, call)
         IN  IF ~IsSome(r.result) \/ ~Deserializes(call.ty)
             THEN [result |-> None, hit |-> FALSE, panic |-> r.panic,
                   setting |-> s, cache |-> r.cache]
             ELSE [result |-> r.result, hit |-> FALSE, panic |-> FALSE,
                   setting |-> [s EXCEPT !.value_cache = r.result],
                   cache |-> r.cache]

\* a scan that takes the head of the list whatever its filters say
FirstMatchHead(list, ctx, i) == IF list = <<>> THEN 0 ELSE 1

\* the scan of get_internal: index of the first setting whose dynamic filters
\* match, 0 if there is none
RECURSIVE FirstMatch(_, _, _)
FirstMatch(list, ctx, i) ==
    IF i > Len(list) THEN 0
    ELSE IF SettingCheckDynamic(list[i], ctx) THEN i
    ELSE FirstMatch(list, ctx, i + 1)

\* RuntimeSettings::get_internal::<T>: [result, hit, panic, settings, cache]
get_internal(map, key, ctx, secrets_ver, cache, backend, call) ==
    LET i == FirstMatch(map[key], ctx, 1)
    IN  IF i = 0
        THEN [result |-> None, hit |-> FALSE, panic |-> FALSE,
              settings |-> map, cache |-> cache]
        ELSE LET s0 == map[key][i]
                 s1 == IF has_secrets(s0) THEN invalidate_if_stale(s0, secrets_ver)
                       ELSE s0
                 g == get_value(s1, cache, backend, call)
             IN  [result |-> g.result, hit |-> g.hit, panic |-> g.panic,
                  settings |-> [map EXCEPT ![key][i] = g.setting],
                  cache |-> g.cache]

(***************************************************************************)
(* Actions.                                                                *)
(***************************************************************************)
\* the store without the interior caches of its settings
Visible(st) ==
    [version |-> st.version,
     settings |-> [k \in Keys |->
        [i \in 1..Len(st.settings[k]) |->
            [st.settings[k][i] EXCEPT !.value_cache = None,
                                      !.cached_at_version = 0]]]]

Init ==
    /\ static_context \in StaticContexts
    /\ version = "0"
    /\ settings = [k \in Keys |-> <<>>]
    /\ secrets_version = 0
    /\ secrets_cache = [p \in Paths |-> None]
    /\ vault = [p \in Paths |-> "hunter2"]
    /\ refreshed = {}
    /\ lastGet = NoGet
    /\ merging = None
    /\ readers = [r \in Readers |-> None]
    /\ committed = Visible([version |-> "0", settings |-> [k \in Keys |-> <<>>]])
    /\ watchers = [k \in Keys |-> None]
    /\ snapshot = [k \in Keys |-> None]
    /\ calls = [c \in {} |-> 0]
    /\ next_watcher_id = 0
    /\ armed = {}
    /\ snapshots = <<>>
    /\ layers = <<>>
    /\ behaviour = [id \in {} |-> ""]
    /\ checking = Idle
    /\ poisoned = FALSE
    /\ refreshing = [pc |-> "idle", caller |-> "loop", sent |-> "", load |-> "none",
                     got |-> "", done |-> {}, result |-> "none", loop |-> "alive"]
    /\ thread_request = None
    /\ guards = <<>>
    /\ tasks = [t \in {0} |-> [request |-> None, custom |-> None, scopes |-> <<>>,
                                parent |-> 0, within |-> <<>>]]
    /\ server = 0
    /\ inflight = [c \in Callers |-> None]

\* RuntimeSettings::merge_settings(response), as init and refresh call it
Merge(response) ==
    LET m == MergeResult([version |-> version, settings |-> settings],
                         response, static_context)
    IN  /\ lastGet = NoGet
        /\ settings' = m.settings
        /\ version' = m.version
        /\ UNCHANGED <<overlapVars, refreshing, scopeVars, checkVars, watchVars, ctxVars, static_context, secretVars, lastGet, lockVars>>

\* RuntimeSettings::get::<T>(key) under the dynamic context ctx, called as
\* `call` says, up to its return statement or its panic
GetAs(call, key, ctx) ==
    LET g == get_internal(settings, key, ctx, secrets_version, secrets_cache,
                          vault, call)
    IN  /\ lastGet = NoGet
        /\ settings' = g.settings
        /\ secrets_cache' = g.cache
        /\ lastGet' = [key |-> key, ctx |-> ctx, result |-> g.result, hit |-> g.hit,
                       panic |-> g.panic]
        /\ UNCHANGED <<overlapVars, refreshing, scopeVars, checkVars, watchVars, ctxVars, static_context, version, secrets_version, vault, refreshed, lockVars>>

\* get::<Doc>(key) called from a thread of a multi-threaded runtime
Get(key, ctx) == GetAs(DefaultCall, key, ctx)

\* the caller takes the value get returns
Return ==
    /\ lastGet # NoGet
    /\ lastGet' = NoGet
    /\ UNCHANGED <<overlapVars, refreshing, scopeVars, checkVars, watchVars, ctxVars, storeVars, secretVars, lockVars>>

Next ==
    \/ \E response \in Responses : Merge(response)
    \/ \E key \in Keys, ctx \in DynamicContexts : Get(key, ctx)
    \/ Return

Spec == Init /\ [][Next]_vars

(***************************************************************************)
(* Properties of the store and of get.                                     *)
(***************************************************************************)
\* the value a setting without secret nodes deserializes to
PlainValue(s) == [body |-> s.value.body, pass |-> NoRef]

\* the settings of a key that match a dynamic context
Matching(key, ctx) ==
    {i \in 1..Len(settings[key]) : SettingCheckDynamic(settings[key][i], ctx)}

\* C1: when two or more entries of a key match the dynamic context of a get,
\* the get returns the value of the one with the highest priority.
C1_HighestPriorityWins ==
    lastGet # NoGet =>
        LET list == settings[lastGet.key]
            m == Matching(lastGet.key, lastGet.ctx)
        IN  \A i \in m :
                (/\ \E j \in m : list[j].priority < list[i].priority
                 /\ \A j \in m : list[j].priority <= list[i].priority)
                => lastGet.result = Some(PlainValue(list[i]))

\* a get has returned the value of the higher of two matching entries with
\* different values, the higher one carrying a url-path filter
C1_Witness ==
    /\ lastGet # NoGet
    /\ IsSome(lastGet.ctx.request)
    /\ \E i, j \in Matching(lastGet.key, lastGet.ctx) :
          LET list == settings[lastGet.key]
          IN  /\ list[i].priority > list[j].priority
              /\ list[i].value # list[j].value
              /\ DOMAIN list[i].dynamic_filters # {}
              /\ lastGet.result = Some(PlainValue(list[i]))

\* the state of the store
CurrentState == [version |-> version, settings |-> settings]

\* a response carrying one setting / one deletion record and nothing else
SettingResponse(raw) == [settings |-> <<raw>>, deleted |-> <<>>, version |-> ""]
DeletionResponse(d) == [settings |-> <<>>, deleted |-> <<d>>, version |-> ""]

\* every list of the store is strictly decreasing in priority
StrictlyDecreasing(map) ==
    \A k \in Keys : \A i, j \in 1..Len(map[k]) :
        i < j => map[k][i].priority > map[k][j].priority

\* C3: every key's list is strictly decreasing in priority, and merging an
\* entry that passes the static check and compiles leaves exactly one entry at
\* its (key, priority), the new one, the list growing only if there was none.
C3_SortedAndReplaced ==
    /\ StrictlyDecreasing(settings)
    /\ \A raw \in RawSettings :
          (check_static_filters(raw.filter, static_context)
            /\ IsSome(SettingCompile(raw)))
          => LET new == MergeResult(CurrentState, SettingResponse(raw),
                                    static_context).settings[raw.key]
                 old == settings[raw.key]
                 at(list) == {i \in 1..Len(list) : list[i].priority = raw.priority}
             IN  /\ Cardinality(at(new)) = 1
                 /\ \A i \in at(new) : new[i] = Unwrap(SettingCompile(raw))
                 /\ Len(new) = Len(old) + (IF at(old) = {} THEN 1 ELSE 0)
                 /\ StrictlyDecreasing([k \in Keys |-> new])

\* a key holds two entries and an incoming entry differs from the stored one
\* at its (key, priority)
C3_Witness ==
    \E raw \in RawSettings :
        /\ Len(settings[raw.key]) = 2
        /\ check_static_filters(raw.filter, static_context)
        /\ \E i \in 1..2 : /\ settings[raw.key][i].priority = raw.priority
                           /\ settings[raw.key][i].value # raw.value

\* C4: every entry of the store passes its static filters against the
\* process's static context.
C4_StaticPruned ==
    \A k \in Keys : \A i \in 1..Len(settings[k]) :
        SettingCheckStatic(settings[k][i], static_context)

\* C5: merging a deletion record (key, priority) removes the entries of that
\* key with that priority and changes nothing else: the other entries keep
\* their order, the other keys and the version stay as they are.
C5_DeleteExact ==
    \A d \in SettingKeys :
        LET m == MergeResult(CurrentState, DeletionResponse(d), static_context)
        IN  /\ m.version = version
            /\ \A k \in Keys :
                  m.settings[k] =
                      SelectSeq(settings[k],
                                LAMBDA s : k # d.key \/ s.priority # d.priority)

\* the store holds two entries of K1 and one of K2: a record for K1 has an
\* entry to remove and entries to keep, a record for the free K2 slot matches
\* nothing
C5_Witness ==
    /\ Len(settings["K1"]) = 2
    /\ Len(settings["K2"]) = 1
    /\ \E d \in SettingKeys :
          MergeResult(CurrentState, DeletionResponse(d), static_context).settings
              = settings

\* C28: a get returns the value of the highest-priority entry of the key
\* whose dynamic filters match the context of the call, whatever stands above
\* it, and None if the key has no entry or none matches; under a request an
\* entry filtered by url-path=/api/.* matches exactly when the path is /api/u.
C28_FirstMatchingOrNone ==
    lastGet # NoGet =>
        LET list == settings[lastGet.key]
            m == Matching(lastGet.key, lastGet.ctx)
            top == {i \in m : \A j \in m : list[j].priority <= list[i].priority}
        IN  /\ m = {} => lastGet.result = None
            /\ \A i \in top : lastGet.result = Some(PlainValue(list[i]))
            /\ \A i \in 1..Len(list) :
                  (list[i].dynamic_filters = UrlApi /\ IsSome(lastGet.ctx.request))
                  => (i \in m <=> Unwrap(lastGet.ctx.request).path = "/api/u")

\* under the request /web a get has passed over the entry filtered by
\* url-path=/api/.* and returned the different value of the entry below it
C28_Witness ==
    /\ lastGet # NoGet
    /\ Len(settings[lastGet.key]) = 2
    /\ settings[lastGet.key][1].dynamic_filters = UrlApi
    /\ IsSome(lastGet.ctx.request)
    /\ Unwrap(lastGet.ctx.request).path = "/web"
    /\ settings[lastGet.key][2].value # settings[lastGet.key][1].value
    /\ lastGet.result = Some(PlainValue(settings[lastGet.key][2]))

\* C29: merging an entry whose static filters fail for the process's
\* static context removes the entries at its (key, priority) and changes
\* nothing else: no entry is inserted, the other entries keep their order.
C29_StaticMismatchRemoves ==
    \A raw \in RawSettings :
        LET c == SettingCompile(raw)
        IN  (IsSome(c) /\ ~SettingCheckStatic(Unwrap(c), static_context))
            => MergeResult(CurrentState, SettingResponse(raw), static_context).settings
                 = [settings EXCEPT
                       ![raw.key] = SelectSeq(@, LAMBDA s : s.priority # raw.priority)]

\* C35: an entry merged from the response of one provider is still in the
\* store after the merge of another provider's response, whatever entry or
\* deletion record that response carries.
C35_ProvidersIsolated ==
    \A f \in RawSettings :
        (check_static_filters(f.filter, static_context) /\ IsSome(SettingCompile(f)))
        => LET loaded == MergeResult(CurrentState, SettingResponse(f), static_context)
               kept(st) == \E i \in 1..Len(st.settings[f.key]) :
                              st.settings[f.key][i] = Unwrap(SettingCompile(f))
           IN  /\ \A g \in RawSettings :
                     kept(MergeResult(loaded, SettingResponse(g), static_context))
               /\ \A d \in SettingKeys :
                     kept(MergeResult(loaded, DeletionResponse(d), static_context))

(***************************************************************************)
(* merge_settings and get_internal at the level of the RwLock of           *)
(* RuntimeSettings.state.                                                  *)
(***************************************************************************)
\* the entries the lock-level specification merges: one (key, priority) slot
\* per key, with a static mismatch among them
LockRaws ==
    {r \in RawSettings : r.priority = 1 /\ r.filter \in {NoFilter, AppOther}}
LockDeleted == {d \in SettingKeys : d.priority = 1}
LockResponses ==
    [settings : SeqsUpTo(LockRaws, MaxSettings),
     deleted : SeqsUpTo(LockDeleted, MaxDeleted),
     version : ResponseVersions]

\* a read lock that does not wait for the writer
CanReadAlways == TRUE

\* RwLock::read succeeds: no writer holds the lock
CanRead == merging = None

\* RwLock::write succeeds: nobody holds the lock
CanWrite == merging = None /\ \A r \in Readers : readers[r] = None

\* merge_settings: self.state.write()
MergeLock(response) ==
    /\ CanWrite
    /\ merging' = Some(response)
    /\ UNCHANGED <<overlapVars, refreshing, scopeVars, checkVars, watchVars, ctxVars, storeVars, secretVars, lastGet, readers, committed>>

\* merge_settings: one iteration of the loop over response.deleted
MergeDeleted ==
    /\ IsSome(merging)
    /\ Unwrap(merging).deleted # <<>>
    /\ settings' = ProcessDeleted(settings, <<Head(Unwrap(merging).deleted)>>)
    /\ merging' = Some([Unwrap(merging) EXCEPT !.deleted = Tail(@)])
    /\ UNCHANGED <<overlapVars, refreshing, scopeVars, checkVars, watchVars, ctxVars, static_context, version, secretVars, lastGet, readers, committed>>

\* merge_settings: one iteration of the loop over response.settings
MergeSetting ==
    /\ IsSome(merging)
    /\ Unwrap(merging).deleted = <<>>
    /\ Unwrap(merging).settings # <<>>
    /\ settings' = ProcessSetting(settings, Head(Unwrap(merging).settings),
                                  static_context)
    /\ merging' = Some([Unwrap(merging) EXCEPT !.settings = Tail(@)])
    /\ UNCHANGED <<overlapVars, refreshing, scopeVars, checkVars, watchVars, ctxVars, static_context, version, secretVars, lastGet, readers, committed>>

\* merge_settings: the version update and the release of the write lock
MergeUnlock ==
    /\ IsSome(merging)
    /\ Unwrap(merging).deleted = <<>>
    /\ Unwrap(merging).settings = <<>>
    /\ version' = IF Unwrap(merging).version # "" THEN Unwrap(merging).version
                  ELSE version
    /\ merging' = None
    /\ committed' = Visible([version |-> version', settings |-> settings])
    /\ UNCHANGED <<overlapVars, refreshing, scopeVars, checkVars, watchVars, ctxVars, static_context, settings, secretVars, lastGet, readers>>

\* get_internal: self.state.read()
ReadLock(r, key, ctx) ==
    /\ readers[r] = None
    /\ CanRead
    /\ readers' = [readers EXCEPT ![r] = Some([key |-> key, ctx |-> ctx])]
    /\ UNCHANGED <<overlapVars, refreshing, scopeVars, checkVars, watchVars, ctxVars, storeVars, secretVars, lastGet, merging, committed>>

\* get_internal: the lookup under the read lock, and the release of the lock
ReadUnlock(r) ==
    /\ IsSome(readers[r])
    /\ LET g == get_internal(settings, Unwrap(readers[r]).key, Unwrap(readers[r]).ctx,
                             secrets_version, secrets_cache, vault, DefaultCall)
       IN  /\ settings' = g.settings
           /\ secrets_cache' = g.cache
    /\ readers' = [readers EXCEPT ![r] = None]
    /\ UNCHANGED <<overlapVars, refreshing, scopeVars, checkVars, watchVars, ctxVars, static_context, version, secrets_version, vault, refreshed,
                   lastGet, merging, committed>>

NextLock ==
    \/ \E response \in LockResponses : MergeLock(response)
    \/ MergeDeleted
    \/ MergeSetting
    \/ MergeUnlock
    \/ \E r \in Readers, key \in Keys : ReadLock(r, key, [request |-> None])
    \/ \E r \in Readers : ReadUnlock(r)

SpecLock == Init /\ [][NextLock]_vars

\* C2: while a get holds the read lock, the store (entries and version) is
\* the one a whole merge left behind: never a partly merged response.
C2_NoTornRead ==
    \A r \in Readers :
        IsSome(readers[r]) => Visible(CurrentState) = committed

\* a get holds the read lock after a merge that inserted for both keys and
\* set the version
C2_Witness ==
    /\ \E r \in Readers : IsSome(readers[r])
    /\ version = "1"
    /\ \A k \in Keys : Len(settings[k]) = 1

(***************************************************************************)
(* Settings with secret nodes and the secret broker.                       *)
(***************************************************************************)
\* K1 references db/creds, K2 references interservice-auth/x
SecretRaws ==
    {[key |-> "K1", priority |-> 1, filter |-> NoFilter,
      value |-> [body |-> "a", ref |-> "db/creds"]],
     [key |-> "K2", priority |-> 1, filter |-> NoFilter,
      value |-> [body |-> "a", ref |-> "interservice-auth/x"]]}

NoRequest == [request |-> None]

\* the backend value of a secret changes
Rotate(path, data) ==
    /\ lastGet = NoGet
    /\ vault[path] # data
    /\ vault' = [vault EXCEPT ![path] = data]
    /\ refreshed' = refreshed \ {path}
    /\ UNCHANGED <<overlapVars, refreshing, scopeVars, checkVars, watchVars, ctxVars, storeVars, secrets_version, secrets_cache, lastGet, lockVars>>

\* time passes: every cached secret becomes older than its refresh interval
Tick ==
    /\ lastGet = NoGet
    /\ \E p \in Paths : IsSome(secrets_cache[p]) /\ ~Unwrap(secrets_cache[p]).aged
    /\ secrets_cache' =
          [p \in Paths |->
              IF IsSome(secrets_cache[p])
              THEN Some([Unwrap(secrets_cache[p]) EXCEPT !.aged = TRUE])
              ELSE None]
    /\ UNCHANGED <<overlapVars, refreshing, scopeVars, checkVars, watchVars, ctxVars, storeVars, secrets_version, vault, refreshed, lastGet, lockVars>>

\* SecretsService::refresh
SecretsRefresh ==
    LET r == RefreshPaths(secrets_cache, vault, paths_to_refresh(secrets_cache), FALSE)
    IN  /\ lastGet = NoGet
        /\ BumpVersion(secrets_version, r.any_changed) <= MaxEpoch
        /\ secrets_cache' = r.cache
        /\ secrets_version' = BumpVersion(secrets_version, r.any_changed)
        /\ refreshed' = refreshed \cup {p \in Paths : IsSome(secrets_cache[p])}
        /\ UNCHANGED <<overlapVars, refreshing, scopeVars, checkVars, watchVars, ctxVars, storeVars, vault, lastGet, lockVars>>

NextSecret ==
    \/ \E raw \in SecretRaws : Merge(SettingResponse(raw))
    \/ \E key \in Keys : Get(key, NoRequest)
    \/ Return
    \/ \E p \in Paths, d \in SecretData : Rotate(p, d)
    \/ Tick
    \/ SecretsRefresh

SpecSecret == Init /\ [][NextSecret]_vars

\* the setting a get of key selects under NoRequest, as a one-element set
Selected(key) ==
    LET i == FirstMatch(settings[key], NoRequest, 1)
    IN  IF i = 0 THEN {} ELSE {i}

\* C6: a get of a secret-bearing entry returns the cached value only when the
\* entry's cached_at_version equals the broker's version; when they differ the
\* cache is cleared, cached_at_version becomes the broker's version and the
\* value returned is built anew from the broker's secrets.
C6_EpochChecked ==
    [][\A key \in Keys : Get(key, NoRequest) =>
        \A i \in Selected(key) :
            LET s == settings[key][i]
                t == settings'[key][i]
            IN  has_secrets(s) =>
                  /\ lastGet'.hit =>
                        /\ s.cached_at_version = secrets_version
                        /\ lastGet'.result = s.value_cache
                  /\ s.cached_at_version # secrets_version =>
                        /\ ~lastGet'.hit
                        /\ t.value_cache = lastGet'.result
                        /\ \A n \in 1..Len(s.secrets_usages) :
                              Unwrap(lastGet'.result).pass =
                                Unwrap(secrets_cache'[s.secrets_usages[n].path]).value
                  /\ t.cached_at_version = secrets_version]_vars

\* a get has cleared the cache of a secret-bearing entry after the broker's
\* version advanced, and returned the value built from the new secret
C6_Witness ==
    /\ lastGet # NoGet
    /\ ~lastGet.hit
    /\ secrets_version > 0
    /\ \E i \in Selected(lastGet.key) :
          LET s == settings[lastGet.key][i]
          IN  /\ has_secrets(s)
              /\ s.cached_at_version = secrets_version
              /\ Unwrap(lastGet.result).pass = "s3cret"

\* C7: once a refresh() has completed after the backend value of a cached
\* secret changed, a get of an entry that references the secret returns a
\* value built from the backend's current secret.
C7_FreshAfterRefresh ==
    (lastGet # NoGet /\ IsSome(lastGet.result)) =>
        \A i \in Selected(lastGet.key) :
            LET s == settings[lastGet.key][i]
            IN  \A n \in 1..Len(s.secrets_usages) :
                    s.secrets_usages[n].path \in refreshed =>
                        Unwrap(lastGet.result).pass = vault[s.secrets_usages[n].path]

\* C8 as claimed: a get clears the populated cache of an entry only if a
\* secret the entry references has changed since the cache was populated.
C8_ClearedOnlyIfDependencyChanged ==
    [][\A key \in Keys : Get(key, NoRequest) =>
        \A i \in Selected(key) :
            LET s == settings[key][i]
            IN  (has_secrets(s) /\ IsSome(s.value_cache) /\ ~lastGet'.hit) =>
                    \E n \in 1..Len(s.secrets_usages) :
                        Unwrap(s.value_cache).pass #
                          Unwrap(secrets_cache[s.secrets_usages[n].path]).value]_vars

\* C8 as amended: a get clears the populated cache of a secret-bearing entry
\* if and only if the broker's version differs from the entry's
\* cached_at_version; a cached value built from a secret that has since
\* changed in the broker always has a differing version.
C8_ClearedIffVersionDiffers ==
    /\ [](\A key \in Keys : \A i \in 1..Len(settings[key]) :
            LET s == settings[key][i]
            IN  (has_secrets(s) /\ IsSome(s.value_cache)) =>
                  \A n \in 1..Len(s.secrets_usages) :
                      LET c == secrets_cache[s.secrets_usages[n].path]
                      IN  (IsSome(c) /\ Unwrap(c).value # Unwrap(s.value_cache).pass)
                            => s.cached_at_version # secrets_version)
    /\ [][\A key \in Keys : Get(key, NoRequest) =>
            \A i \in Selected(key) :
                LET s == settings[key][i]
                IN  (has_secrets(s) /\ IsSome(s.value_cache)) =>
                        (~lastGet'.hit <=> s.cached_at_version # secrets_version)]_vars

\* a get has rebuilt the value of the entry that references db/creds at a
\* later broker version, with both secrets cached
C8_Witness ==
    /\ lastGet # NoGet
    /\ lastGet.key = "K1"
    /\ ~lastGet.hit
    /\ secrets_version > 0
    /\ \A p \in Paths : IsSome(secrets_cache[p])
    /\ \E i \in Selected("K1") :
          settings["K1"][i].cached_at_version = secrets_version

(***************************************************************************)
(* Watchers (watchers.rs) and RuntimeSettings::refresh.                    *)
(***************************************************************************)
\* RuntimeSettings::collect_current_values: per key the raw value of the
\* first setting whose dynamic filters match, if there is one
collect_current_values(map, ctx) ==
    [k \in Keys |->
        LET i == FirstMatch(map[k], ctx, 1)
        IN  IF i = 0 THEN None ELSE Some(map[k][i].value)]

\* the entries of the watchers map under key
Entries(w, key) == IF IsSome(w[key]) THEN Unwrap(w[key]) ELSE <<>>

\* WatchersService::check, the callbacks it invokes: one per entry of every
\* key of the watchers map whose snapshot differs from the current value
CheckCalls(w, snap, cur) ==
    LET changed == {k \in Keys : IsSome(w[k]) /\ snap[k] # cur[k]}
        made == UNION {{[id |-> Entries(w, k)[n], key |-> k,
                         old |-> snap[k], new |-> cur[k]] :
                            n \in 1..Len(Entries(w, k))} : k \in changed}
    IN  [c \in made |->
            Cardinality({n \in 1..Len(Entries(w, c.key)) : Entries(w, c.key)[n] = c.id})]

\* a check that leaves the snapshot as it was
CheckSnapshotKeep(w, snap, cur) == snap

\* WatchersService::check, the snapshot it leaves
CheckSnapshot(w, snap, cur) ==
    [k \in Keys |-> IF IsSome(w[k]) /\ snap[k] # cur[k] THEN cur[k] ELSE snap[k]]

\* the responses the provider answers a refresh with: one setting without
\* filters, one deletion record, or nothing
WatchResponses ==
    {SettingResponse(raw) : raw \in {r \in RawSettings : r.filter = NoFilter}}
    \cup {DeletionResponse(d) : d \in SettingKeys}
    \cup {[settings |-> <<>>, deleted |-> <<>>, version |-> ""]}

\* RuntimeSettings::add_watcher / WatchersService::add of a callback that
\* behaves as `kind` says; it takes the write lock of the watchers map
AddWatcherWith(key, kind) ==
    /\ lastGet = NoGet
    /\ checking.pc \notin {"locked", "deadlocked"}
    /\ next_watcher_id < MaxWatchers
    /\ watchers' = [watchers EXCEPT ![key] = Some(Append(Entries(watchers, key), next_watcher_id))]
    /\ next_watcher_id' = next_watcher_id + 1
    /\ armed' = IF collect_current_values(settings, NoRequest)[key] = None
                THEN armed \cup {next_watcher_id} ELSE armed
    /\ behaviour' = [id \in DOMAIN behaviour \cup {next_watcher_id} |->
                        IF id = next_watcher_id THEN kind ELSE behaviour[id]]
    /\ UNCHANGED <<overlapVars, refreshing, scopeVars, storeVars, secretVars, lastGet, lockVars, snapshot, calls, ctxVars,
                   checking, poisoned>>

\* add_watcher of a callback that returns and whose future completes
AddWatcher(key) == AddWatcherWith(key, "quiet")

\* RuntimeSettings::remove_watcher / WatchersService::remove
RemoveWatcher(id) ==
    /\ lastGet = NoGet
    /\ checking.pc \notin {"locked", "deadlocked"}
    /\ \E k \in Keys : \E n \in 1..Len(Entries(watchers, k)) : Entries(watchers, k)[n] = id
    /\ watchers' = [k \in Keys |->
                      IF IsSome(watchers[k])
                      THEN Some(SelectSeq(Unwrap(watchers[k]), LAMBDA e : e # id))
                      ELSE None]
    /\ UNCHANGED <<overlapVars, refreshing, scopeVars, storeVars, secretVars, lastGet, lockVars, snapshot, calls,
                   next_watcher_id, armed, ctxVars, checkVars>>

\* RuntimeSettings::refresh: merge the provider's response, refresh the
\* secrets, collect the current values and check the watchers
Refresh(response) ==
    LET m == MergeResult([version |-> version, settings |-> settings],
                         response, static_context)
        r == RefreshPaths(secrets_cache, vault, paths_to_refresh(secrets_cache), FALSE)
        cur == collect_current_values(m.settings, NoRequest)
    IN  /\ lastGet = NoGet
        /\ BumpVersion(secrets_version, r.any_changed) <= MaxEpoch
        /\ settings' = m.settings
        /\ version' = m.version
        /\ secrets_cache' = r.cache
        /\ secrets_version' = BumpVersion(secrets_version, r.any_changed)
        /\ refreshed' = refreshed \cup {p \in Paths : IsSome(secrets_cache[p])}
        /\ calls' = CheckCalls(watchers, snapshot, cur)
        /\ snapshot' = CheckSnapshot(watchers, snapshot, cur)
        /\ UNCHANGED <<overlapVars, refreshing, scopeVars, static_context, vault, lastGet, lockVars, watchers,
                       next_watcher_id, armed, ctxVars, checkVars>>

NextWatch ==
    \/ \E key \in Keys : AddWatcher(key)
    \/ \E id \in 0..MaxWatchers : RemoveWatcher(id)
    \/ \E response \in WatchResponses : Refresh(response)

SpecWatch == Init /\ [][NextWatch]_vars

\* C9: for a watcher added on a key while the key had no value, a refresh
\* that changes the key's value from old to new (None standing for no value)
\* invokes the watcher's callback exactly once, with (old, new), and a refresh
\* that leaves the value as it was does not invoke it; so the first value V
\* gives (None, V), a change gives (V, W) and a deletion gives (W, None).
C9_WatcherChangeTrigger ==
    [][\A response \in WatchResponses : Refresh(response) =>
        \A k \in Keys : \A n \in 1..Len(Entries(watchers, k)) :
            LET id == Entries(watchers, k)[n]
                old == collect_current_values(settings, NoRequest)[k]
                new == collect_current_values(settings', NoRequest)[k]
                mine == {c \in DOMAIN calls' : c.id = id}
                call == [id |-> id, key |-> k, old |-> old, new |-> new]
            IN  id \in armed =>
                    IF old = new THEN mine = {}
                    ELSE mine = {call} /\ calls'[call] = 1]_vars

\* a refresh has reported the deletion of a value to a watcher that was added
\* before the key had any value
C9_Witness ==
    \E c \in DOMAIN calls :
        /\ c.id \in armed
        /\ IsSome(c.old)
        /\ c.new = None
        /\ calls[c] = 1

\* C38: a refresh that leaves the value of a key as it was invokes no
\* callback of the key's watchers, whenever they were added.
C38_FiresOnlyOnChange ==
    [][\A response \in WatchResponses : Refresh(response) =>
        \A k \in Keys : \A n \in 1..Len(Entries(watchers, k)) :
            (collect_current_values(settings', NoRequest)[k]
                = collect_current_values(settings, NoRequest)[k])
            => \A c \in DOMAIN calls' : c.id # Entries(watchers, k)[n]]_vars

(***************************************************************************)
(* CustomContext (context.rs).                                             *)
(***************************************************************************)
CustomKeys == {"k", "j"}
CustomValues == {"a", "b"}

\* the layers a caller can push: maps from some of the keys to values
Layers == UNION {[D -> CustomValues] : D \in SUBSET CustomKeys}

\* a push in which the values of the current snapshot win
PushLayerOldWins(snaps, layer) ==
    IF Len(snaps) = 0 THEN Append(snaps, layer)
    ELSE LET current == snaps[Len(snaps)]
         IN  Append(snaps, [k \in DOMAIN layer \cup DOMAIN current |->
                              IF k \in DOMAIN current THEN current[k] ELSE layer[k]])

\* CustomContext::push_layer
push_layer(snaps, layer) ==
    IF Len(snaps) = 0 THEN Append(snaps, layer)
    ELSE LET current == snaps[Len(snaps)]
         IN  Append(snaps, [k \in DOMAIN layer \cup DOMAIN current |->
                              IF k \in DOMAIN layer THEN layer[k] ELSE current[k]])

\* a pop that leaves the snapshots as they are
PopLayerNothing(snaps) == snaps

\* CustomContext::pop_layer (Vec::pop: nothing happens on an empty Vec)
pop_layer(snaps) ==
    IF Len(snaps) = 0 THEN snaps ELSE SubSeq(snaps, 1, Len(snaps) - 1)

\* CustomContext::get
CustomContextGet(snaps, key) ==
    IF Len(snaps) = 0 THEN None
    ELSE IF key \in DOMAIN snaps[Len(snaps)] THEN Some(snaps[Len(snaps)][key])
    ELSE None

PushLayer(layer) ==
    /\ Len(snapshots) < MaxDepth
    /\ snapshots' = push_layer(snapshots, layer)
    /\ layers' = Append(layers, layer)
    /\ UNCHANGED <<overlapVars, refreshing, scopeVars, storeVars, secretVars, lastGet, lockVars, watchVars, checkVars>>

PopLayer ==
    /\ snapshots' = pop_layer(snapshots)
    /\ layers' = IF Len(layers) = 0 THEN layers ELSE SubSeq(layers, 1, Len(layers) - 1)
    /\ UNCHANGED <<overlapVars, refreshing, scopeVars, storeVars, secretVars, lastGet, lockVars, watchVars, checkVars>>

NextCtx ==
    \/ \E layer \in Layers : PushLayer(layer)
    \/ PopLayer

SpecCtx == Init /\ [][NextCtx]_vars

\* the value of key in the topmost of the given layers that binds it
LayeredLookup(stack, key) ==
    LET binding == {i \in 1..Len(stack) : key \in DOMAIN stack[i]}
    IN  IF binding = {} THEN None
        ELSE Some(stack[CHOOSE i \in binding : \A j \in binding : j <= i][key])

\* C10: after any pushes and pops there is one snapshot per layer still on
\* the stack, and get(k) is the value of k in the most recently pushed such
\* layer that binds k, absent if none binds it.
C10_LayeredLifo ==
    /\ Len(snapshots) = Len(layers)
    /\ \A k \in CustomKeys :
          CustomContextGet(snapshots, k) = LayeredLookup(layers, k)

\* k is bound to a, then to b, then a layer without k is pushed: get(k) is b
C10_Witness ==
    /\ Len(layers) = 3
    /\ "k" \in DOMAIN layers[1] /\ layers[1]["k"] = "a"
    /\ "k" \in DOMAIN layers[2] /\ layers[2]["k"] = "b"
    /\ "k" \notin DOMAIN layers[3]
    /\ CustomContextGet(snapshots, "k") = Some("b")

(***************************************************************************)
(* Entries with request-derived filters and with patterns that do not      *)
(* compile.                                                                *)
(***************************************************************************)
\* one filter map per request-derived dynamic filter
HostEx == [n \in {"host"} |-> "example\\.com"]
EmailCorp == [n \in {"email"} |-> ".*@corp"]
IpTen == [n \in {"ip"} |-> "10\\..*"]
HeaderFlag == [n \in {"header"} |-> "X-Flag=on"]
RequestFilterMaps == {UrlApi, HostEx, EmailCorp, IpTen, HeaderFlag}

\* filter maps whose pattern the regex crate rejects
BadUrl == [n \in {"url-path"} |-> "("]
BadApp == [n \in {"application"} |-> "("]
BadFilterMaps == {BadUrl, BadApp}

\* the body of the entries whose filter does not compile
BadBody == "x"

\* entries of K1: "a" behind a request-derived filter, "b" without a filter,
\* BadBody behind a filter that does not compile or with a secret reference
\* that does not parse
FilterRaws ==
    [key : {"K1"}, priority : Priorities, filter : RequestFilterMaps,
     value : {[body |-> "a", ref |-> NoRef]}]
    \cup [key : {"K1"}, priority : Priorities, filter : {NoFilter},
          value : {[body |-> "b", ref |-> NoRef]}]
    \cup [key : {"K1"}, priority : Priorities, filter : BadFilterMaps,
          value : {[body |-> BadBody, ref |-> NoRef]}]
    \cup [key : {"K1"}, priority : Priorities, filter : {NoFilter},
          value : {[body |-> BadBody, ref |-> BadRef]}]

FilterResponses ==
    [settings : SeqsUpTo(FilterRaws, MaxSettings), deleted : {<<>>}, version : {""}]

\* header maps of a request
HeaderMaps ==
    {NoHeaders,
     [n \in {"Host"} |-> "example.com"],
     [n \in {"Host"} |-> "evil.org"],
     [n \in {"X-Real-Email"} |-> "ann@corp"],
     [n \in {"X-Real-Ip"} |-> "10.0.0.1"],
     [n \in {"X-Flag"} |-> "on"]}

\* no request in scope, or a request with one of the header maps
FilterContexts ==
    {NoRequest} \cup
    {[request |-> Some([path |-> "/web", headers |-> h])] : h \in HeaderMaps}

NextFilter ==
    \/ \E response \in FilterResponses : Merge(response)
    \/ \E ctx \in FilterContexts : Get("K1", ctx)
    \/ Return

SpecFilter == Init /\ [][NextFilter]_vars

\* C11: an entry whose filter pattern does not compile never enters the
\* store and is never returned by get.
C11_BadPatternDropped ==
    /\ \A k \in Keys : \A i \in 1..Len(settings[k]) :
          settings[k][i].value.body # BadBody
    /\ IsSome(lastGet.result) => Unwrap(lastGet.result).body # BadBody

\* C12: in a process without mcs_run_env no entry carrying an mcs_run_env
\* filter is in the store, and get returns no such entry.
C12_McsRunEnvAbsentNoMatch ==
    static_context.mcs_run_env = None =>
        /\ \A k \in Keys : \A i \in 1..Len(settings[k]) :
              "mcs_run_env" \notin DOMAIN settings[k][i].static_filters
        /\ lastGet # NoGet =>
              \A i \in Matching(lastGet.key, lastGet.ctx) :
                  "mcs_run_env" \in DOMAIN settings[lastGet.key][i].static_filters
                      => lastGet.result # Some(PlainValue(settings[lastGet.key][i]))

\* C30: merging an entry that passes the static check and has a filter
\* pattern that is no regex, or a secret reference that does not parse,
\* leaves the store as it is, and a response that carries such an entry
\* before another entry merges as the other entry alone does.
C30_CompileErrorSkipped ==
    \A raw \in FilterRaws :
        (/\ check_static_filters(raw.filter, static_context)
         /\ \/ \E n \in DOMAIN raw.filter : ~RegexValid(raw.filter[n])
            \/ raw.value.ref = BadRef)
        => /\ MergeResult(CurrentState, SettingResponse(raw), static_context).settings
                = settings
           /\ \A other \in FilterRaws :
                 MergeResult(CurrentState,
                             [settings |-> <<raw, other>>, deleted |-> <<>>,
                              version |-> ""],
                             static_context).settings
                   = MergeResult(CurrentState, SettingResponse(other),
                                 static_context).settings

\* the responses merged twice: up to two entries of K1, among them entries
\* that fail the static check or do not compile, after at most one deletion
\* record
RepeatedResponses ==
    {[settings |-> r.settings, deleted |-> d, version |-> v] :
        r \in FilterResponses,
        d \in {<<>>, <<[key |-> "K1", priority |-> 1]>>},
        v \in ResponseVersions}

\* C40: merging a response into a store that has just merged it changes
\* neither the entries of any key, nor their order, nor the version, nor the
\* value get finds for any key.
C40_MergeIdempotent ==
    \A response \in RepeatedResponses :
        LET once == MergeResult(CurrentState, response, static_context)
            twice == MergeResult(once, response, static_context)
        IN  /\ Visible(twice) = Visible(once)
            /\ collect_current_values(twice.settings, NoRequest)
                  = collect_current_values(once.settings, NoRequest)

\* the store holds two entries of K1 and a response that deletes one of them,
\* carries an entry that does not compile and an entry that replaces the
\* other changes the store
C40_Witness ==
    /\ Len(settings["K1"]) = 2
    /\ \E response \in RepeatedResponses :
          /\ Len(response.settings) = 2
          /\ response.deleted # <<>>
          /\ response.settings[1].value.ref = BadRef
          /\ response.settings[2].priority = 2
          /\ Len(MergeResult(CurrentState, response, static_context).settings["K1"]) = 1
          /\ Visible(MergeResult(CurrentState, response, static_context))
                # Visible(CurrentState)

\* the request-derived dynamic filters
RequestFilterNames == {"url-path", "host", "email", "ip", "header"}

\* the context of a request without headers
BareRequest == [request |-> Some([path |-> "/web", headers |-> NoHeaders])]

\* C13: every stored entry that carries only request-derived dynamic filters
\* passes its dynamic check when no request is in scope, its host, email and
\* ip filters pass for a request without the header they read, and a get
\* outside any request scope returns the first entry of the key's list.
C13_AbsentRequestPasses ==
    /\ \A k \in Keys : \A i \in 1..Len(settings[k]) :
          LET s == settings[k][i]
          IN  DOMAIN s.dynamic_filters \subseteq RequestFilterNames =>
                /\ SettingCheckDynamic(s, NoRequest)
                /\ \A n \in DOMAIN s.dynamic_filters \cap {"host", "email", "ip"} :
                      CompiledDynamicCheck(n, s.dynamic_filters[n], BareRequest)
    /\ (lastGet # NoGet /\ lastGet.ctx = NoRequest /\ settings[lastGet.key] # <<>>)
          => lastGet.result = Some(PlainValue(settings[lastGet.key][1]))

\* outside any request scope a get has returned an entry that carries a host
\* filter, above an entry without filters
C13_Witness ==
    /\ lastGet # NoGet
    /\ lastGet.ctx = NoRequest
    /\ Len(settings[lastGet.key]) = 2
    /\ DOMAIN settings[lastGet.key][1].dynamic_filters = {"host"}
    /\ lastGet.result = Some(PlainValue(settings[lastGet.key][1]))
    /\ settings[lastGet.key][2].value.body = "b"

(***************************************************************************)
(* The read path when the backend fails, the key is missing, the type does *)
(* not fit or the caller is not on a multi-threaded runtime.               *)
(***************************************************************************)
\* the two secret-bearing entries and a plain one for the slot of K2
ReadRaws ==
    SecretRaws \cup {[key |-> "K2", priority |-> 1, filter |-> NoFilter,
                      value |-> [body |-> "b", ref |-> NoRef]]}

NextRead ==
    \/ \E raw \in ReadRaws : Merge(SettingResponse(raw))
    \/ \E call \in Calls, key \in Keys : GetAs(call, key, NoRequest)
    \/ Return
    \/ \E p \in Paths, d \in VaultData : Rotate(p, d)
    \/ Tick
    \/ SecretsRefresh

SpecRead == Init /\ [][NextRead]_vars

\* C14: a get never panics, and a get of a key without a matching entry
\* returns None.
C14_ReadNeverFails ==
    lastGet # NoGet =>
        /\ ~lastGet.panic
        /\ Selected(lastGet.key) = {} => lastGet.result = None

\* C32: a get never panics, and what it returns is None or the value of the
\* first entry of the key that matches the context, never the value of an
\* entry below it.
C32_NoFallThrough ==
    lastGet # NoGet =>
        /\ ~lastGet.panic
        /\ \A i \in Selected(lastGet.key) :
              IsSome(lastGet.result) =>
                  Unwrap(lastGet.result).body = settings[lastGet.key][i].value.body

\* C15: a get that fails to resolve a secret caches nothing and leaves the
\* store's entries as they were, and a get of a secret-bearing entry succeeds
\* whenever the backend holds the password of every secret the entry
\* references.
C15_FailureDoesNotPoison ==
    /\ [][\A call \in Calls, key \in Keys : GetAs(call, key, NoRequest) =>
            \A i \in Selected(key) :
                (/\ has_secrets(settings[key][i])
                 /\ call.ty = "Doc"
                 /\ lastGet'.result = None
                 /\ ~lastGet'.panic)
                => /\ secrets_cache' = secrets_cache
                   /\ Visible([version |-> version', settings |-> settings'])
                        = Visible(CurrentState)]_vars
    /\ [][\A key \in Keys : GetAs(DefaultCall, key, NoRequest) =>
            \A i \in Selected(key) :
                (\A n \in 1..Len(settings[key][i].secrets_usages) :
                    vault[settings[key][i].secrets_usages[n].path] \in SecretData)
                => IsSome(lastGet'.result)]_vars

\* C33: a get::<Doc> of an entry whose cache holds a value for the broker's
\* current version returns that value without a change of the broker's
\* cache; a get that returns None leaves the entry's cache empty or as it
\* was; and an entry that a merge puts into the store has an empty cache.
C33_TypedCacheReused ==
    /\ [][\A key \in Keys : GetAs(DefaultCall, key, NoRequest) =>
            \A i \in Selected(key) :
                LET s == settings[key][i]
                IN  (/\ IsSome(s.value_cache)
                     /\ has_secrets(s) => s.cached_at_version = secrets_version)
                    => /\ lastGet'.hit
                       /\ lastGet'.result = s.value_cache
                       /\ secrets_cache' = secrets_cache
                       /\ settings'[key][i].value_cache = s.value_cache]_vars
    /\ [][(lastGet = NoGet /\ lastGet' # NoGet /\ lastGet'.result = None) =>
            \A i \in Selected(lastGet'.key) :
                settings'[lastGet'.key][i].value_cache
                    \in {None, settings[lastGet'.key][i].value_cache}]_vars
    /\ [][(lastGet' = lastGet /\ settings' # settings) =>
            \A k \in Keys : \A i \in 1..Len(settings'[k]) :
                (\A j \in 1..Len(settings[k]) : settings[k][j] # settings'[k][i])
                => settings'[k][i].value_cache = None]_vars

\* a get has been answered from the cache of a secret-bearing entry that was
\* filled again after a change of the broker's version
C33_Witness ==
    /\ lastGet # NoGet
    /\ lastGet.hit
    /\ secrets_version = 1
    /\ \E i \in Selected(lastGet.key) :
          /\ has_secrets(settings[lastGet.key][i])
          /\ settings[lastGet.key][i].cached_at_version = 1
          /\ lastGet.result = settings[lastGet.key][i].value_cache

(***************************************************************************)
(* WatchersService::check step by step: the block that holds the locks of  *)
(* the watchers map and of the snapshot, then the loop that awaits the     *)
(* futures.                                                                *)
(***************************************************************************)
\* what a callback does: "quiet" returns a future that completes,
\* "panic_call" panics in the callback function, "panic_future" returns a
\* future that panics, "add_call" calls add_watcher in the callback function,
\* "add_future" returns a future that calls add_watcher
Behaviours == {"quiet", "panic_call", "panic_future", "add_call", "add_future"}

\* the maps check may be called with
CurrentValues == [Keys -> {None, Some([body |-> "a", ref |-> NoRef])}]

\* check: watchers.read() and snapshot.write(); the unwrap of a poisoned
\* snapshot lock panics
CheckStart(cur) ==
    /\ checking.pc = "idle"
    /\ checking' = [Idle EXCEPT !.pc = IF poisoned THEN "panicked" ELSE "locked",
                                !.cur = cur]
    /\ UNCHANGED <<overlapVars, refreshing, scopeVars, storeVars, secretVars, lastGet, lockVars, watchVars, ctxVars,
                   behaviour, poisoned>>

\* check: the loop over watchers.iter() reaches a key, in the order of the
\* HashMap: the diff against the snapshot and the snapshot update
CheckKey(key) ==
    /\ checking.pc = "locked"
    /\ checking.todo = <<>>
    /\ key \notin checking.visited
    /\ IsSome(watchers[key])
    /\ snapshot' = IF snapshot[key] # checking.cur[key]
                   THEN [snapshot EXCEPT ![key] = checking.cur[key]]
                   ELSE snapshot
    /\ checking' = [checking EXCEPT
                      !.visited = @ \cup {key},
                      !.todo = IF snapshot[key] # checking.cur[key]
                               THEN Entries(watchers, key) ELSE <<>>]
    /\ UNCHANGED <<overlapVars, refreshing, scopeVars, storeVars, secretVars, lastGet, lockVars, watchers, calls,
                   next_watcher_id, armed, ctxVars, behaviour, poisoned>>

\* check: (entry.callback)(old, new), inside the block that holds the locks.
\* A panic of the callback function unwinds check and poisons the snapshot
\* lock; add_watcher asks for the write lock of the watchers map, which this
\* thread holds for reading: RwLock::write deadlocks or panics.
CheckCall ==
    /\ checking.pc = "locked"
    /\ checking.todo # <<>>
    /\ LET id == Head(checking.todo)
       IN  CASE behaviour[id] = "panic_call" ->
                  /\ checking' = [checking EXCEPT !.pc = "panicked", !.todo = <<>>,
                                                  !.futures = <<>>]
                  /\ poisoned' = TRUE
             [] behaviour[id] = "add_call" ->
                  /\ \E pc \in {"deadlocked", "lock_panicked"} :
                        checking' = [checking EXCEPT !.pc = pc]
                  /\ poisoned' = (poisoned \/ checking'.pc = "lock_panicked")
             [] OTHER ->
                  /\ checking' = [checking EXCEPT !.todo = Tail(@),
                                                  !.futures = Append(@, id)]
                  /\ UNCHANGED poisoned
    /\ UNCHANGED <<overlapVars, refreshing, scopeVars, storeVars, secretVars, lastGet, lockVars, watchVars, ctxVars,
                   behaviour>>

\* check: the end of the block, the guards are dropped
CheckUnlock ==
    /\ checking.pc = "locked"
    /\ checking.todo = <<>>
    /\ \A k \in Keys : IsSome(watchers[k]) => k \in checking.visited
    /\ checking' = [checking EXCEPT !.pc = "awaiting"]
    /\ UNCHANGED <<overlapVars, refreshing, scopeVars, storeVars, secretVars, lastGet, lockVars, watchVars, ctxVars,
                   behaviour, poisoned>>

\* check: AssertUnwindSafe(future).catch_unwind().await of the next future; a
\* panic of the future is caught and logged, a future that calls add_watcher
\* adds a quiet watcher on K1 if an id is left
CheckAwait ==
    /\ checking.pc = "awaiting"
    /\ checking.futures # <<>>
    /\ LET id == Head(checking.futures)
           adds == behaviour[id] = "add_future" /\ next_watcher_id < MaxWatchers
       IN  /\ checking' = [checking EXCEPT !.futures = Tail(@), !.ran = @ \cup {id}]
           /\ watchers' = IF adds
                          THEN [watchers EXCEPT !["K1"] =
                                  Some(Append(Entries(watchers, "K1"), next_watcher_id))]
                          ELSE watchers
           /\ next_watcher_id' = IF adds THEN next_watcher_id + 1 ELSE next_watcher_id
           /\ behaviour' = IF adds
                           THEN [i \in DOMAIN behaviour \cup {next_watcher_id} |->
                                   IF i = next_watcher_id THEN "quiet" ELSE behaviour[i]]
                           ELSE behaviour
    /\ UNCHANGED <<overlapVars, refreshing, scopeVars, storeVars, secretVars, lastGet, lockVars, snapshot, calls, armed,
                   ctxVars, poisoned>>

\* check returns
CheckReturn ==
    /\ checking.pc = "awaiting"
    /\ checking.futures = <<>>
    /\ checking' = [checking EXCEPT !.pc = "returned"]
    /\ UNCHANGED <<overlapVars, refreshing, scopeVars, storeVars, secretVars, lastGet, lockVars, watchVars, ctxVars,
                   behaviour, poisoned>>

\* the caller of check goes on, after a return or a panic
CheckDone ==
    /\ checking.pc \in {"returned", "panicked", "lock_panicked"}
    /\ checking' = Idle
    /\ UNCHANGED <<overlapVars, refreshing, scopeVars, storeVars, secretVars, lastGet, lockVars, watchVars, ctxVars,
                   behaviour, poisoned>>

NextCheck ==
    \/ \E key \in Keys, kind \in Behaviours : AddWatcherWith(key, kind)
    \/ \E id \in 0..MaxWatchers : RemoveWatcher(id)
    \/ \E cur \in CurrentValues : CheckStart(cur)
    \/ \E key \in Keys : CheckKey(key)
    \/ CheckCall
    \/ CheckUnlock
    \/ CheckAwait
    \/ CheckReturn
    \/ CheckDone

SpecCheck == Init /\ [][NextCheck]_vars

\* C16: a panic of a callback never ends a check: check catches it, runs the
\* other callbacks and returns.
C16_PanicIsolated ==
    checking.pc # "panicked"

\* C17: a callback that calls add_watcher never blocks on, and never panics
\* at, a lock that check holds.
C17_NoCallbackUnderLock ==
    checking.pc \notin {"deadlocked", "lock_panicked"}

\* C36: a check calls the callback function and runs the callback's future
\* of registered watchers only: of none that remove has taken out.
C36_RemovedNeverRuns ==
    /\ [][(checking.pc = "locked" /\ checking.todo # <<>> /\ CheckCall)
            => \E k \in Keys : \E n \in 1..Len(Entries(watchers, k)) :
                  Entries(watchers, k)[n] = Head(checking.todo)]_vars
    /\ [][CheckAwait
            => \E k \in Keys : \E n \in 1..Len(Entries(watchers, k)) :
                  Entries(watchers, k)[n] = Head(checking.futures)]_vars

(***************************************************************************)
(* get_internal and get_value step by step, for gets that run concurrently *)
(* with each other and with SecretsService::refresh.                       *)
(***************************************************************************)
\* get_internal: self.state.read(), the scan for the first matching setting,
\* which has secrets, and self.secrets.version()
RaceLock(r, key) ==
    /\ readers[r] = None
    /\ CanRead
    /\ \E i \in Selected(key) : has_secrets(settings[key][i])
    /\ readers' = [readers EXCEPT ![r] =
                      Some([pc |-> "invalidate", key |-> key, ver |-> secrets_version,
                            val |-> None])]
    /\ UNCHANGED <<overlapVars, refreshing, scopeVars, checkVars, watchVars, ctxVars, storeVars, secretVars, lastGet,
                   merging, committed>>

\* get_internal: setting.invalidate_if_stale(version), with the version read
\* before
RaceInvalidate(r) ==
    /\ IsSome(readers[r])
    /\ Unwrap(readers[r]).pc = "invalidate"
    /\ LET g == Unwrap(readers[r])
       IN  \E i \in Selected(g.key) :
              settings' = [settings EXCEPT ![g.key][i] = invalidate_if_stale(@, g.ver)]
    /\ readers' = [readers EXCEPT ![r] = Some([Unwrap(@) EXCEPT !.pc = "lookup"])]
    /\ UNCHANGED <<overlapVars, refreshing, scopeVars, checkVars, watchVars, ctxVars, static_context, version, secretVars,
                   lastGet, merging, committed>>

\* get_value: the check of value_cache and, on a miss, the fast path of
\* get_sync; a path that is not cached sends the get to the backend
RaceLookup(r) ==
    /\ IsSome(readers[r])
    /\ Unwrap(readers[r]).pc = "lookup"
    /\ LET g == Unwrap(readers[r])
       IN  \E i \in Selected(g.key) :
              LET e == settings[g.key][i]
                  path == Head(e.secrets_usages).path
                  res == resolve_secrets_sync([body |-> e.value.body, pass |-> NoRef],
                                              e.secrets_usages, secrets_cache, vault,
                                              DefaultCall)
              IN  readers' = [readers EXCEPT ![r] =
                    Some(IF IsSome(e.value_cache)
                         THEN [g EXCEPT !.pc = "done", !.val = e.value_cache]
                         ELSE IF ~IsSome(secrets_cache[path])
                         THEN [g EXCEPT !.pc = "fetch"]
                         ELSE IF IsSome(res.result)
                         THEN [g EXCEPT !.pc = "insert", !.val = res.result]
                         ELSE [g EXCEPT !.pc = "done"])]
    /\ UNCHANGED <<overlapVars, refreshing, scopeVars, checkVars, watchVars, ctxVars, storeVars, secretVars, lastGet,
                   merging, committed>>

\* get_sync: the slow path, block_in_place around SecretsService::get. get
\* looks in the cache again and answers from it if the path is cached with
\* the key; otherwise it reads the backend and caches the secret, over
\* whatever the cache holds for the path
RaceFetch(r) ==
    /\ IsSome(readers[r])
    /\ Unwrap(readers[r]).pc = "fetch"
    /\ LET g == Unwrap(readers[r])
       IN  \E i \in Selected(g.key) :
              LET e == settings[g.key][i]
                  path == Head(e.secrets_usages).path
                  hit == /\ IsSome(secrets_cache[path])
                         /\ Unwrap(secrets_cache[path]).value # NoPassword
                  data == IF hit THEN Unwrap(secrets_cache[path]).value
                          ELSE vault[path]
              IN  /\ secrets_cache' =
                        IF hit \/ vault[path] = Unavailable THEN secrets_cache
                        ELSE [secrets_cache EXCEPT
                                 ![path] = Some(CachedSecret(vault[path]))]
                  /\ readers' = [readers EXCEPT ![r] =
                        Some(IF data \in SecretData
                             THEN [g EXCEPT !.pc = "insert",
                                            !.val = Some([body |-> e.value.body,
                                                          pass |-> data])]
                             ELSE [g EXCEPT !.pc = "done"])]
    /\ UNCHANGED <<overlapVars, refreshing, scopeVars, checkVars, watchVars, ctxVars, storeVars, secrets_version, vault,
                   refreshed, lastGet, merging, committed>>

\* get_value: value_cache.insert of the value built
RaceInsert(r) ==
    /\ IsSome(readers[r])
    /\ Unwrap(readers[r]).pc = "insert"
    /\ LET g == Unwrap(readers[r])
       IN  \E i \in Selected(g.key) :
              settings' = [settings EXCEPT ![g.key][i].value_cache = g.val]
    /\ readers' = [readers EXCEPT ![r] = Some([Unwrap(@) EXCEPT !.pc = "done"])]
    /\ UNCHANGED <<overlapVars, refreshing, scopeVars, checkVars, watchVars, ctxVars, static_context, version, secretVars,
                   lastGet, merging, committed>>

\* get_internal returns: the read guard is dropped
RaceUnlock(r) ==
    /\ IsSome(readers[r])
    /\ Unwrap(readers[r]).pc = "done"
    /\ readers' = [readers EXCEPT ![r] = None]
    /\ UNCHANGED <<overlapVars, refreshing, scopeVars, checkVars, watchVars, ctxVars, storeVars, secretVars, lastGet,
                   merging, committed>>

\* the racing gets read K2, whose secret is one that refresh re-reads
NextRace ==
    \/ \E raw \in {x \in SecretRaws : x.key = "K2"} :
          CanWrite /\ Merge(SettingResponse(raw))
    \/ \E r \in Readers : RaceLock(r, "K2")
    \/ \E r \in Readers : RaceInvalidate(r)
    \/ \E r \in Readers : RaceLookup(r)
    \/ \E r \in Readers : RaceFetch(r)
    \/ \E r \in Readers : RaceInsert(r)
    \/ \E r \in Readers : RaceUnlock(r)
    \/ \E d \in SecretData \cup {NoPassword} : Rotate("interservice-auth/x", d)
    \/ Tick
    \/ SecretsRefresh

SpecRace == Init /\ [][NextRace]_vars

\* C18: no get waits for the secret backend while it holds the read lock of
\* the store.
C18_NoFetchUnderReadLock ==
    \A r \in Readers : IsSome(readers[r]) => Unwrap(readers[r]).pc # "fetch"

\* C19: a step of a get never sets an entry's cached_at_version back to an
\* older version, and never clears a value cached for the broker's current
\* version.
C19_EpochSerialized ==
    [][readers' # readers =>
        \A key \in Keys : \A i \in Selected(key) :
            LET s == settings[key][i]
                t == settings'[key][i]
            IN  /\ t.cached_at_version >= s.cached_at_version
                /\ (IsSome(s.value_cache) /\ s.cached_at_version = secrets_version)
                      => IsSome(t.value_cache)]_vars

\* C20: once the racing gets have returned, the value left in an entry's
\* cache for the broker's current version is the value built from the
\* broker's secrets.
C20_RacingMissesAgree ==
    (\A r \in Readers : readers[r] = None) =>
        \A key \in Keys : \A i \in Selected(key) :
            LET s == settings[key][i]
            IN  (/\ has_secrets(s)
                 /\ IsSome(s.value_cache)
                 /\ s.cached_at_version = secrets_version)
                  => \A n \in 1..Len(s.secrets_usages) :
                        /\ IsSome(secrets_cache[s.secrets_usages[n].path])
                        /\ Unwrap(s.value_cache).pass =
                              Unwrap(secrets_cache[s.secrets_usages[n].path]).value

\* the paths whose cached value differs between the two states of a step
ChangedPaths ==
    {p \in Paths : /\ IsSome(secrets_cache[p])
                   /\ IsSome(secrets_cache'[p])
                   /\ Unwrap(secrets_cache'[p]).value # Unwrap(secrets_cache[p]).value}

\* C27: a step that changes the broker's cached value of a path increases
\* the broker's version, a refresh increases it by one if it changed a cached
\* value and leaves it alone otherwise, and no step decreases it.
C27_EpochTracksChanges ==
    /\ [][ChangedPaths # {} => secrets_version' > secrets_version]_vars
    /\ [][SecretsRefresh =>
            secrets_version' = secrets_version
                                 + (IF ChangedPaths # {} THEN 1 ELSE 0)]_vars
    /\ [][secrets_version' >= secrets_version]_vars

\* C31: a get of the broker goes to the backend only if the path is not
\* cached: the synchronous bridge leaves its fast path only on a miss of the
\* path, and the get it falls back to leaves a cached path as it is.
C31_CachedPathAnswers ==
    /\ [][\A r \in Readers :
            (/\ IsSome(readers[r]) /\ IsSome(readers'[r])
             /\ Unwrap(readers[r]).pc = "lookup"
             /\ Unwrap(readers'[r]).pc = "fetch")
            => secrets_cache["interservice-auth/x"] = None]_vars
    /\ [][(\E r \in Readers : RaceFetch(r)) =>
            \A p \in Paths :
                IsSome(secrets_cache[p]) => secrets_cache'[p] = secrets_cache[p]]_vars

(***************************************************************************)
(* RuntimeSettings::refresh step by step, as the background loop of setup  *)
(* and as refresh_with_timeout run it.                                     *)
(***************************************************************************)
\* what the remote provider answers, or an env/file provider loads: one entry
\* of K1 or one deletion record, with or without a version
TickResponses ==
    [settings : SeqsUpTo({r \in RawSettings : /\ r.key = "K1" /\ r.priority = 1
                                              /\ r.filter = NoFilter}, 1),
     deleted : SeqsUpTo({d \in SettingKeys : d.key = "K1" /\ d.priority = 1}, 1),
     version : {"", "1", "2"}]

\* refresh begins: the version is read under the read lock and sent to the
\* provider; caller is "loop" (the task spawned by setup, after its sleep) or
\* "with_timeout" (refresh_with_timeout)
RefreshStart(caller) ==
    /\ refreshing.pc = "idle"
    /\ checking.pc = "idle"
    /\ caller = "loop" => refreshing.loop = "alive"
    /\ refreshing' = [pc |-> "load", caller |-> caller, sent |-> version,
                      load |-> "none", got |-> "", done |-> {}, result |-> "none",
                      loop |-> refreshing.loop]
    /\ UNCHANGED <<overlapVars, scopeVars, checkVars, watchVars, ctxVars, storeVars, secretVars,
                   lastGet, lockVars>>

\* refresh: provider.load(&version).await answers; Ok(response) is merged,
\* Err (None) is logged
RefreshLoad(outcome) ==
    /\ refreshing.pc = "load"
    /\ LET m == MergeResult([version |-> version, settings |-> settings],
                            Unwrap(outcome), static_context)
       IN  IF IsSome(outcome)
           THEN /\ settings' = m.settings
                /\ version' = m.version
                /\ refreshing' = [refreshing EXCEPT !.pc = "secrets", !.load = "ok",
                                                    !.got = Unwrap(outcome).version,
                                                    !.done = @ \cup {"merge"}]
           ELSE /\ UNCHANGED <<settings, version>>
                /\ refreshing' = [refreshing EXCEPT !.pc = "secrets", !.load = "failed"]
    /\ UNCHANGED <<overlapVars, scopeVars, checkVars, watchVars, ctxVars, static_context, secretVars,
                   lastGet, lockVars>>

\* refresh: self.secrets.refresh().await?, which always returns Ok
RefreshSecrets ==
    LET r == RefreshPaths(secrets_cache, vault, paths_to_refresh(secrets_cache), FALSE)
    IN  /\ refreshing.pc = "secrets"
        /\ BumpVersion(secrets_version, r.any_changed) <= MaxEpoch
        /\ secrets_cache' = r.cache
        /\ secrets_version' = BumpVersion(secrets_version, r.any_changed)
        /\ refreshed' = refreshed \cup {p \in Paths : IsSome(secrets_cache[p])}
        /\ refreshing' = [refreshing EXCEPT !.pc = "check", !.done = @ \cup {"secrets"}]
        /\ UNCHANGED <<overlapVars, scopeVars, checkVars, watchVars, ctxVars, storeVars, vault,
                       lastGet, lockVars>>

\* refresh ends with the check it awaits: Ok(()) when check returns; a panic
\* of check unwinds refresh, and in the loop it ends the spawned task
RefreshEnd ==
    /\ refreshing.pc = "check"
    /\ checking.pc \in {"returned", "panicked", "lock_panicked"}
    /\ checking' = Idle
    /\ refreshing' =
          [refreshing EXCEPT
              !.pc = "idle",
              !.done = @ \cup {"check"},
              !.result = IF checking.pc = "returned" THEN "ok" ELSE "panic",
              !.loop = IF checking.pc # "returned" /\ refreshing.caller = "loop"
                       THEN "dead" ELSE @]
    /\ UNCHANGED <<overlapVars, scopeVars, behaviour, poisoned, watchVars, ctxVars, storeVars,
                   secretVars, lastGet, lockVars>>

\* refresh_with_timeout: the deadline passes while refresh is pending at an
\* await (the load, the secrets refresh, a callback's future): the refresh
\* future is dropped and Err(Timeout) returned
RefreshExpire ==
    /\ refreshing.caller = "with_timeout"
    /\ \/ refreshing.pc \in {"load", "secrets"}
       \/ /\ refreshing.pc = "check"
          /\ checking.pc = "awaiting"
          /\ checking.futures # <<>>
    /\ checking' = Idle
    /\ refreshing' = [refreshing EXCEPT !.pc = "idle", !.result = "timeout"]
    /\ UNCHANGED <<overlapVars, scopeVars, behaviour, poisoned, watchVars, ctxVars, storeVars,
                   secretVars, lastGet, lockVars>>

NextTick ==
    \/ \E response \in {x \in TickResponses : x.version = ""} : Merge(response)
    \/ \E kind \in Behaviours : AddWatcherWith("K1", kind)
    \/ \E caller \in {"loop", "with_timeout"} : RefreshStart(caller)
    \/ \E outcome \in {None} \cup {Some(x) : x \in TickResponses} : RefreshLoad(outcome)
    \/ RefreshSecrets
    \/ refreshing.pc = "check" /\ CheckStart(collect_current_values(settings, NoRequest))
    \/ \E key \in Keys : CheckKey(key)
    \/ CheckCall
    \/ CheckUnlock
    \/ CheckAwait
    \/ CheckReturn
    \/ RefreshEnd
    \/ RefreshExpire

SpecTick == Init /\ [][NextTick]_vars

\* C21: once a refresh has merged the provider's response, the store version
\* is the response's version if that is not empty and the version the poll
\* sent otherwise, whatever env/file loads (empty version) were merged in
\* between; and the version a pending poll has sent is the store version.
C21_VersionCursor ==
    /\ refreshing.pc = "load" => refreshing.sent = version
    /\ refreshing.load = "ok" =>
          version = IF refreshing.got # "" THEN refreshing.got ELSE refreshing.sent

\* a refresh sent the version "2" that an earlier response had recorded and
\* merged a response without a version: the store version is still "2"
C21_Witness ==
    /\ refreshing.load = "ok"
    /\ refreshing.got = ""
    /\ refreshing.sent = "2"
    /\ version = "2"
    /\ \E i \in 1..Len(settings["K1"]) : settings["K1"][i].value.body = "b"

\* C22: a tick of the background loop whose load failed has left the store
\* as it was, has refreshed the secrets and checked the watchers, and the
\* loop lives on for the next tick.
C22_LoadFailureTolerated ==
    /\ [][RefreshLoad(None) => UNCHANGED <<settings, version>>]_vars
    /\ [](( /\ refreshing.caller = "loop"
            /\ refreshing.load = "failed"
            /\ refreshing.pc = "idle")
            => /\ {"secrets", "check"} \subseteq refreshing.done
               /\ refreshing.loop = "alive")

\* C23: a refresh_with_timeout is never stuck where its deadline cannot end
\* it, its timeout leaves the store as the merge of the response left it,
\* and the store is never left between two responses.
C23_TimeoutKeepsMerge ==
    /\ [][RefreshExpire => UNCHANGED <<settings, version>>]_vars
    /\ [](refreshing.caller = "with_timeout" => checking.pc # "deadlocked")

\* C37: a future that check has collected for a change stays collected
\* until it has run: no step drops it.
C37_NoNotificationLost ==
    [][\A n \in 1..Len(checking.futures) :
          \/ \E m \in 1..Len(checking'.futures) :
                checking'.futures[m] = checking.futures[n]
          \/ checking.futures[n] \in checking'.ran]_vars

(***************************************************************************)
(* The ambient scope (scoped.rs): thread-local guards and task-local       *)
(* scopes, as one thread runs the tasks.                                   *)
(***************************************************************************)
\* a lookup that asks the thread first
CurrentRequestThreadFirst(task, thread_req) ==
    IF IsSome(thread_req) THEN thread_req ELSE task.request

\* current_request() in a task: TASK_REQUEST if the task has it set, else
\* THREAD_REQUEST
current_request(task, thread_req) ==
    IF IsSome(task.request) THEN task.request ELSE thread_req

\* current_custom() in a task: TASK_CUSTOM if the task has it set, else
\* THREAD_CUSTOM
current_custom(task, thread_custom) ==
    IF IsSome(task.custom) THEN Unwrap(task.custom) ELSE thread_custom

\* set_request / set_thread_request: the guard keeps the previous request;
\* `was` notes the thread's bindings before the call
SetRequest(req) ==
    /\ lastGet = NoGet
    /\ Len(guards) < MaxScopes
    /\ thread_request' = Some(req)
    /\ guards' = Append(guards, [kind |-> "request", previous |-> thread_request,
                                 was |-> <<thread_request, snapshots>>])
    /\ UNCHANGED <<overlapVars, refreshing, tasks, storeVars, secretVars, lastGet, lockVars,
                   watchVars, checkVars, ctxVars>>

\* set_custom / set_thread_custom: push_layer on THREAD_CUSTOM
SetCustom(layer) ==
    /\ lastGet = NoGet
    /\ Len(guards) < MaxScopes
    /\ snapshots' = push_layer(snapshots, layer)
    /\ layers' = Append(layers, layer)
    /\ guards' = Append(guards, [kind |-> "custom", previous |-> None,
                                 was |-> <<thread_request, snapshots>>])
    /\ UNCHANGED <<overlapVars, refreshing, thread_request, tasks, storeVars, secretVars, lastGet,
                   lockVars, watchVars, checkVars>>

\* drop of the guard taken last: RequestGuard puts the previous request
\* back, CustomContextGuard pops a layer
DropGuard ==
    /\ lastGet = NoGet
    /\ guards # <<>>
    /\ LET g == guards[Len(guards)]
       IN  IF g.kind = "request"
           THEN /\ thread_request' = g.previous
                /\ UNCHANGED <<snapshots, layers>>
           ELSE /\ snapshots' = pop_layer(snapshots)
                /\ layers' = SubSeq(layers, 1, Len(layers) - 1)
                /\ UNCHANGED thread_request
    /\ guards' = SubSeq(guards, 1, Len(guards) - 1)
    /\ UNCHANGED <<overlapVars, refreshing, tasks, storeVars, secretVars, lastGet, lockVars,
                   watchVars, checkVars>>

\* with_request / with_task_request in task t: TASK_REQUEST.scope(Some(req), f)
\* sets the task-local for f and keeps what it held
WithRequest(t, req) ==
    /\ lastGet = NoGet
    /\ Len(tasks[t].within) + Len(tasks[t].scopes) < MaxScopes
    /\ tasks' = [tasks EXCEPT ![t].request = Some(req),
                              ![t].scopes = Append(@, [kind |-> "request",
                                                       value |-> Some(req),
                                                       prev |-> tasks[t].request])]
    /\ UNCHANGED <<overlapVars, refreshing, thread_request, guards, storeVars, secretVars, lastGet,
                   lockVars, watchVars, checkVars, ctxVars>>

\* with_custom / with_task_custom in task t: current_custom() with the layer
\* pushed becomes TASK_CUSTOM for f
WithCustom(t, layer) ==
    /\ lastGet = NoGet
    /\ Len(tasks[t].within) + Len(tasks[t].scopes) < MaxScopes
    /\ LET ctx == push_layer(current_custom(tasks[t], snapshots), layer)
       IN  tasks' = [tasks EXCEPT ![t].custom = Some(ctx),
                                  ![t].scopes = Append(@, [kind |-> "custom",
                                                           value |-> Some(ctx),
                                                           prev |-> tasks[t].custom])]
    /\ UNCHANGED <<overlapVars, refreshing, thread_request, guards, storeVars, secretVars, lastGet,
                   lockVars, watchVars, checkVars, ctxVars>>

\* the future given to the innermost scope of task t completes: the
\* task-local holds again what it held before the scope
ScopeEnd(t) ==
    /\ lastGet = NoGet
    /\ tasks[t].scopes # <<>>
    /\ LET sc == tasks[t].scopes[Len(tasks[t].scopes)]
           rest == SubSeq(tasks[t].scopes, 1, Len(tasks[t].scopes) - 1)
       IN  tasks' = [tasks EXCEPT
                        ![t] = IF sc.kind = "request"
                               THEN [@ EXCEPT !.request = sc.prev, !.scopes = rest]
                               ELSE [@ EXCEPT !.custom = sc.prev, !.scopes = rest]]
    /\ UNCHANGED <<overlapVars, refreshing, thread_request, guards, storeVars, secretVars, lastGet,
                   lockVars, watchVars, checkVars, ctxVars>>

\* tokio::spawn in task t: the new task starts with no task-local set;
\* `within` notes the scopes t is in
Spawn(t) ==
    /\ lastGet = NoGet
    /\ Cardinality(DOMAIN tasks) < MaxTasks
    /\ LET new == Cardinality(DOMAIN tasks)
       IN  tasks' = [u \in DOMAIN tasks \cup {new} |->
                        IF u = new
                        THEN [request |-> None, custom |-> None, scopes |-> <<>>,
                              parent |-> t, within |-> tasks[t].scopes]
                        ELSE tasks[u]]
    /\ UNCHANGED <<overlapVars, refreshing, thread_request, guards, storeVars, secretVars, lastGet,
                   lockVars, watchVars, checkVars, ctxVars>>

\* the get of task t is RuntimeSettings::get: get_dynamic_context, then
\* get_internal
NextScope ==
    \/ \E raw \in {r \in RawSettings : r.key = "K1" /\ r.priority = 1 /\ r.filter = UrlApi} :
          Merge(SettingResponse(raw))
    \/ \E req \in Requests : SetRequest(req)
    \/ \E layer \in {l \in Layers : DOMAIN l = {"k"} /\ l["k"] = "a"} : SetCustom(layer)
    \/ DropGuard
    \/ \E t \in DOMAIN tasks, req \in Requests : WithRequest(t, req)
    \/ \E t \in DOMAIN tasks, layer \in {l \in Layers : DOMAIN l = {"j"} /\ l["j"] = "b"} :
          WithCustom(t, layer)
    \/ \E t \in DOMAIN tasks : ScopeEnd(t)
    \/ \E t \in DOMAIN tasks : Spawn(t)
    \/ \E t \in DOMAIN tasks :
          GetAs(DefaultCall, "K1",
                [request |-> current_request(tasks[t], thread_request)])
    \/ Return

SpecScope == Init /\ [][NextScope]_vars

\* C24: with the guards dropped innermost first, the drop of a guard leaves
\* the thread's request and custom snapshots exactly as they were before the
\* set_request or set_custom that returned it; with no guard left there is no
\* request and no custom snapshot.
C24_GuardRestores ==
    /\ [][DropGuard => <<thread_request', snapshots'>> = guards[Len(guards)].was]_vars
    /\ [](guards = <<>> => thread_request = None /\ snapshots = <<>>)

\* a set_request for /web nested in a set_request for /api/u: the inner
\* guard has the outer request to restore, the outer one none
C24_Witness ==
    /\ Len(guards) = 2
    /\ guards[1].kind = "request"
    /\ guards[2].kind = "request"
    /\ guards[1].previous = None
    /\ guards[2].previous = Some([path |-> "/api/u", headers |-> NoHeaders])
    /\ thread_request = Some([path |-> "/web", headers |-> NoHeaders])

\* the innermost scope of a kind in a stack of scopes, 0 if there is none
Innermost(scopes, kind) ==
    LET of == {i \in 1..Len(scopes) : scopes[i].kind = kind}
    IN  IF of = {} THEN 0 ELSE CHOOSE i \in of : \A j \in of : j <= i

\* C25: in every task the request and the custom snapshot a get uses are
\* those of the task's innermost with_request / with_custom scope if it is in
\* one, else the thread's; with no scope and no guard the request is absent
\* and the custom snapshot is empty.
C25_TaskLocalFirst ==
    /\ \A t \in DOMAIN tasks :
          LET sc == tasks[t].scopes
              r == Innermost(sc, "request")
              c == Innermost(sc, "custom")
          IN  /\ current_request(tasks[t], thread_request) =
                    IF r # 0 THEN sc[r].value ELSE thread_request
              /\ current_custom(tasks[t], snapshots) =
                    IF c # 0 THEN Unwrap(sc[c].value) ELSE snapshots
              /\ (r = 0 /\ guards = <<>>) =>
                    current_request(tasks[t], thread_request) = None
              /\ (c = 0 /\ guards = <<>>) => current_custom(tasks[t], snapshots) = <<>>
    /\ lastGet # NoGet =>
          \E t \in DOMAIN tasks :
              LET r == Innermost(tasks[t].scopes, "request")
              IN  lastGet.ctx.request =
                    IF r # 0 THEN tasks[t].scopes[r].value ELSE thread_request

\* a get in a with_request scope for /web, on a thread whose set_request
\* holds /api/u, used /web: the entry filtered by url-path=/api/.* is absent
C25_Witness ==
    /\ lastGet # NoGet
    /\ thread_request = Some([path |-> "/api/u", headers |-> NoHeaders])
    /\ lastGet.ctx.request = Some([path |-> "/web", headers |-> NoHeaders])
    /\ settings["K1"] # <<>>
    /\ lastGet.result = None

\* C26: a task spawned inside a with_request or with_custom scope, while that
\* scope lasts and the task has opened none of its own, sees the scope's
\* request and custom snapshot.
C26_WholeTaskTree ==
    \A c \in DOMAIN tasks :
        LET p == tasks[c].parent
            w == tasks[c].within
            r == Innermost(w, "request")
            k == Innermost(w, "custom")
        IN  (/\ c # 0
             /\ tasks[c].scopes = <<>>
             /\ Len(tasks[p].scopes) >= Len(w)
             /\ SubSeq(tasks[p].scopes, 1, Len(w)) = w)
              => /\ r # 0 => current_request(tasks[c], thread_request) = w[r].value
                 /\ k # 0 => current_custom(tasks[c], snapshots) = Unwrap(w[k].value)

(***************************************************************************)
(* Thread-local guards dropped in any order: a guard is a value the caller *)
(* owns, and nothing makes it drop them innermost first.                   *)
(***************************************************************************)
\* drop of the i-th guard while guards taken after it are alive: the same
\* Drop code, RequestGuard puts its previous request back,
\* CustomContextGuard pops the top layer
DropEarly(i) ==
    /\ lastGet = NoGet
    /\ i \in 1..(Len(guards) - 1)
    /\ IF guards[i].kind = "request"
       THEN /\ thread_request' = guards[i].previous
            /\ UNCHANGED <<snapshots, layers>>
       ELSE /\ snapshots' = pop_layer(snapshots)
            /\ layers' = SubSeq(layers, 1, Len(layers) - 1)
            /\ UNCHANGED thread_request
    /\ guards' = SubSeq(guards, 1, i - 1) \o SubSeq(guards, i + 1, Len(guards))
    /\ UNCHANGED <<overlapVars, refreshing, tasks, storeVars, secretVars, lastGet, lockVars,
                   watchVars, checkVars>>

NextDrop ==
    \/ \E raw \in {r \in RawSettings : r.key = "K1" /\ r.filter \in {UrlApi, NoFilter}} :
          Merge(SettingResponse(raw))
    \/ \E req \in Requests : SetRequest(req)
    \/ \E layer \in {l \in Layers : DOMAIN l = {"k"}} : SetCustom(layer)
    \/ DropGuard
    \/ \E i \in 1..MaxScopes : DropEarly(i)
    \/ GetAs(DefaultCall, "K1", [request |-> current_request(tasks[0], thread_request)])
    \/ Return

SpecDrop == Init /\ [][NextDrop]_vars

\* C39: with every guard of the thread dropped, in whatever order, the
\* thread has no request and no custom snapshot; and while a guard of
\* set_request is alive the thread has a request, while guards of set_custom
\* are alive it has as many snapshots.
C39_NoResidueAnyOrder ==
    /\ guards = <<>> => (thread_request = None /\ snapshots = <<>>)
    /\ (\E i \in 1..Len(guards) : guards[i].kind = "request") => IsSome(thread_request)
    /\ Len(snapshots) = Cardinality({i \in 1..Len(guards) : guards[i].kind = "custom"})

(***************************************************************************)
(* Two callers of RuntimeSettings::refresh at once: the background loop of *)
(* setup and the application. With no secret cached and no watcher         *)
(* registered the steps of refresh after the merge change nothing.         *)
(***************************************************************************)
\* the version strings of the remote, in the order it publishes them
Digits == <<"0", "1", "2", "3", "4", "5", "6", "7", "8", "9">>

\* what the remote answers to a poll with the cursor `sent` once it has
\* published n configurations: nothing new for the cursor of the n-th, else
\* the entry of K1 as the n-th has it, with the version of the n-th
ServerResponse(n, sent) ==
    IF Digits[n + 1] = sent
    THEN [settings |-> <<>>, deleted |-> <<>>, version |-> sent]
    ELSE [settings |-> <<[key |-> "K1", priority |-> 1, filter |-> NoFilter,
                          value |-> [body |-> IF n % 2 = 1 THEN "a" ELSE "b",
                                     ref |-> NoRef]]>>,
          deleted |-> <<>>,
          version |-> Digits[n + 1]]

\* the remote publishes a new configuration
Publish ==
    /\ server < MaxPublished
    /\ server' = server + 1
    /\ UNCHANGED <<inflight, refreshing, scopeVars, checkVars, watchVars, ctxVars, storeVars,
                   secretVars, lastGet, lockVars>>

\* refresh: state.read().await.version.clone(), then provider.load(&version)
OverlapLoad(c) ==
    /\ inflight[c] = None
    /\ inflight' = [inflight EXCEPT
                       ![c] = Some([sent |-> version,
                                    response |-> ServerResponse(server, version)])]
    /\ UNCHANGED <<server, refreshing, scopeVars, checkVars, watchVars, ctxVars, storeVars,
                   secretVars, lastGet, lockVars>>

\* refresh: merge_settings(response) under the write lock, and the return
OverlapMerge(c) ==
    /\ IsSome(inflight[c])
    /\ lastGet = NoGet
    /\ LET m == MergeResult([version |-> version, settings |-> settings],
                            Unwrap(inflight[c]).response, static_context)
       IN  /\ settings' = m.settings
           /\ version' = m.version
    /\ inflight' = [inflight EXCEPT ![c] = None]
    /\ UNCHANGED <<server, refreshing, scopeVars, checkVars, watchVars, ctxVars, static_context,
                   secretVars, lastGet, lockVars>>

NextOverlap ==
    \/ Publish
    \/ \E c \in Callers : OverlapLoad(c)
    \/ \E c \in Callers : OverlapMerge(c)
    \/ Get("K1", NoRequest)
    \/ Return

SpecOverlap == Init /\ [][NextOverlap]_vars

\* the place of a version in the order the remote publishes them
Rank(v) == CHOOSE n \in 0..(Len(Digits) - 1) : Digits[n + 1] = v

\* C34: no merge takes the store back to an older version of the remote,
\* and the store's entry of K1 is the one of the configuration whose version
\* the store records.
C34_NoLostUpdate ==
    /\ [][Rank(version') >= Rank(version)]_vars
    /\ [](\A n \in 1..MaxPublished :
            version = Digits[n + 1] =>
                /\ Len(settings["K1"]) = 1
                /\ settings["K1"][1].value.body = IF n % 2 = 1 THEN "a" ELSE "b")

====
